---- MODULE Spec2Model ----
(***************************************************************************)
(* PADDY product gateway: status normalizer, edit view, product update,    *)
(* products query, product search, categories cache, transport and its     *)
(* configuration, field configuration.                                     *)
(*                                                                         *)
(* JSON values are records [t, b, n, s, d]:                                *)
(*   t = "none" | "bool" | "int" | "float" | "inf" | "nan" | "str"         *)
(*       | "dict" | "list"                                                 *)
(*   b : value of a bool;  n : value of an int, tenths of a finite float,  *)
(*   sign of an infinite float;  s : value of a str;                       *)
(*   d : the items of a dict, a sequence of <<key, value>> pairs.          *)
(* "absent" marks a key that the enclosing object does not have.           *)
(***************************************************************************)
EXTENDS Integers, Sequences, FiniteSets, TLC

(***************************************************************************)
(* Bounds of the checked input space.                                      *)
(***************************************************************************)
MaxInt == 2
MaxNest == 1

(***************************************************************************)
(* JSON values.                                                            *)
(***************************************************************************)
JNone == [t |-> "none", b |-> FALSE, n |-> 0, s |-> "", d |-> <<>>]
Absent == [t |-> "absent", b |-> FALSE, n |-> 0, s |-> "", d |-> <<>>]
JBool(x) == [t |-> "bool", b |-> x, n |-> 0, s |-> "", d |-> <<>>]
JInt(i) == [t |-> "int", b |-> FALSE, n |-> i, s |-> "", d |-> <<>>]
JFloat(tenths) == [t |-> "float", b |-> FALSE, n |-> tenths, s |-> "", d |-> <<>>]
JInf(sign) == [t |-> "inf", b |-> FALSE, n |-> sign, s |-> "", d |-> <<>>]
JNaN == [t |-> "nan", b |-> FALSE, n |-> 0, s |-> "", d |-> <<>>]
JStr(x) == [t |-> "str", b |-> FALSE, n |-> 0, s |-> x, d |-> <<>>]
JDict(items) == [t |-> "dict", b |-> FALSE, n |-> 0, s |-> "", d |-> items]
JList == [t |-> "list", b |-> FALSE, n |-> 0, s |-> "", d |-> <<>>]

\* key in dict
HasKey(dict, key) == \E i \in 1..Len(dict.d) : dict.d[i][1] = key

\* dict[key]
GetItem(dict, key) ==
    LET i == CHOOSE j \in 1..Len(dict.d) : dict.d[j][1] = key
    IN  dict.d[i][2]

\* dict.get(key): None when the key is missing
DictGet(dict, key) == IF HasKey(dict, key) THEN GetItem(dict, key) ELSE JNone

\* dict[key] = value on a copy of dict
SetItem(dict, key, value) ==
    IF HasKey(dict, key)
    THEN JDict([i \in 1..Len(dict.d) |->
                  IF dict.d[i][1] = key THEN <<key, value>> ELSE dict.d[i]])
    ELSE JDict(Append(dict.d, <<key, value>>))

(***************************************************************************)
(* str.strip() and str.lower(), character by character.                    *)
(***************************************************************************)
UpperChars == "ABCDEFGHIJKLMNOPQRSTUVWXYZ"
LowerChars == "abcdefghijklmnopqrstuvwxyz"
Whitespace == {" ", "\t", "\n", "\r"}
Digits == "0123456789"

CharAt(str, i) == SubSeq(str, i, i)

LowerChar(c) ==
    IF \E i \in 1..26 : CharAt(UpperChars, i) = c
    THEN CharAt(LowerChars, CHOOSE i \in 1..26 : CharAt(UpperChars, i) = c)
    ELSE c

RECURSIVE lower(_)
lower(str) ==
    IF Len(str) = 0 THEN ""
    ELSE LowerChar(CharAt(str, 1)) \o lower(SubSeq(str, 2, Len(str)))

RECURSIVE lstrip(_)
lstrip(str) ==
    IF Len(str) > 0 /\ CharAt(str, 1) \in Whitespace
    THEN lstrip(SubSeq(str, 2, Len(str)))
    ELSE str

RECURSIVE rstrip(_)
rstrip(str) ==
    IF Len(str) > 0 /\ CharAt(str, Len(str)) \in Whitespace
    THEN rstrip(SubSeq(str, 1, Len(str) - 1))
    ELSE str

strip(str) == rstrip(lstrip(str))

(***************************************************************************)
(* int(float(x)).  The result is [exc, v]: exc names the exception raised  *)
(* ("" when none is), v is the integer obtained.  Strings are parsed by    *)
(* the grammar [sign] (inf | infinity | nan | digits [. digits] | . digits)*)
(* of float(), without the exponent part, which no sampled input uses.     *)
(***************************************************************************)
IsDigit(c) == \E i \in 1..10 : CharAt(Digits, i) = c
DigitValue(c) == (CHOOSE i \in 1..10 : CharAt(Digits, i) = c) - 1

AllDigits(str) == \A i \in 1..Len(str) : IsDigit(CharAt(str, i))

RECURSIVE DigitsValue(_)
DigitsValue(str) ==
    IF Len(str) = 0 THEN 0
    ELSE 10 * DigitsValue(SubSeq(str, 1, Len(str) - 1))
         + DigitValue(CharAt(str, Len(str)))

Returned(v) == [exc |-> "", v |-> v]
Raised(e) == [exc |-> e, v |-> 0]

\* float(str) followed by int(), str already stripped of its sign
int_float_unsigned(str, sign) ==
    IF lower(str) \in {"inf", "infinity"} THEN Raised("OverflowError")
    ELSE IF lower(str) = "nan" THEN Raised("ValueError")
    ELSE IF \E i \in 1..Len(str) : CharAt(str, i) = "."
    THEN LET p == CHOOSE i \in 1..Len(str) : CharAt(str, i) = "."
             whole == SubSeq(str, 1, p - 1)
             frac == SubSeq(str, p + 1, Len(str))
         IN  IF AllDigits(whole) /\ AllDigits(frac) /\ Len(whole) + Len(frac) > 0
             THEN Returned(sign * DigitsValue(whole))
             ELSE Raised("ValueError")
    ELSE IF Len(str) > 0 /\ AllDigits(str)
    THEN Returned(sign * DigitsValue(str))
    ELSE Raised("ValueError")

\* int(float(str))
int_float_str(str) ==
    LET body == strip(str)
    IN  IF Len(body) > 0 /\ CharAt(body, 1) = "-"
        THEN int_float_unsigned(SubSeq(body, 2, Len(body)), -1)
        ELSE IF Len(body) > 0 /\ CharAt(body, 1) = "+"
        THEN int_float_unsigned(SubSeq(body, 2, Len(body)), 1)
        ELSE int_float_unsigned(body, 1)

\* truncation toward zero of a float held in tenths
Truncate(tenths) == IF tenths >= 0 THEN tenths \div 10 ELSE -((-tenths) \div 10)

\* int(float(x)) for any value x
int_float(x) ==
    CASE x.t = "int" -> Returned(x.n)
      [] x.t = "bool" -> Returned(IF x.b THEN 1 ELSE 0)
      [] x.t = "float" -> Returned(Truncate(x.n))
      [] x.t = "inf" -> Raised("OverflowError")
      [] x.t = "nan" -> Raised("ValueError")
      [] x.t = "str" -> int_float_str(x.s)
      [] OTHER -> Raised("TypeError")

\* int(x) for any value x
int_of(x) ==
    CASE x.t = "int" -> Returned(x.n)
      [] x.t = "bool" -> Returned(IF x.b THEN 1 ELSE 0)
      [] x.t = "float" -> Returned(Truncate(x.n))
      [] x.t = "inf" -> Raised("OverflowError")
      [] x.t = "nan" -> Raised("ValueError")
      [] x.t = "str" ->
           LET r == int_float_str(x.s)
               body == strip(x.s)
           IN  IF r.exc = "" /\ ~(\E i \in 1..Len(body) : CharAt(body, i) = ".")
               THEN r ELSE Raised("ValueError")
      [] OTHER -> Raised("TypeError")

(***************************************************************************)
(* PaddyApp._normalize_ecommerce_status.  The result is 0 (Available),     *)
(* 1 (Not Available), or Propagates when the call raises.                  *)
(***************************************************************************)
Available == 0
NotAvailable == 1
Propagates == 2

status_mapping ==
    [k \in {"available", "enabled", "true", "0", "active",
            "not available", "disabled", "false", "1", "inactive"} |->
        IF k \in {"available", "enabled", "true", "0", "active"} THEN 0 ELSE 1]

dict_keys_to_check ==
    <<"Value", "value", "isAvailable", "Status", "status",
      "Name", "name", "ECommerceStatus", "WebStatus", "web_status">>

RECURSIVE normalize_ecommerce_status(_)
RECURSIVE normalize_dict(_, _)

\* the loop over dict_keys_to_check from position i on
normalize_dict(status, i) ==
    IF i > Len(dict_keys_to_check) THEN 1
    ELSE IF ~HasKey(status, dict_keys_to_check[i]) THEN normalize_dict(status, i + 1)
    ELSE LET value == GetItem(status, dict_keys_to_check[i])
             lowered == lower(strip(value.s))
             nested == normalize_ecommerce_status(
                           IF value.t = "str" THEN JStr(lowered) ELSE value)
         IN  IF value.t \in {"int", "bool"}
             THEN (IF int_float(value).v = 0 THEN 0 ELSE 1)
             ELSE IF value.t = "str" /\ lowered \in {"available", "enabled", "true", "0"}
             THEN 0
             ELSE IF value.t = "str" /\ lowered \in {"not available", "disabled", "false", "1"}
             THEN 1
             ELSE IF nested = Propagates
             THEN normalize_dict(status, i + 1)
             ELSE nested

normalize_ecommerce_status(status) ==
    LET stripped == IF status.t = "str" THEN JStr(lower(strip(status.s))) ELSE status
        int_status == int_float(stripped)
    IN  IF status.t = "none" THEN 1
        ELSE IF status.t = "str" /\ stripped.s \in DOMAIN status_mapping
        THEN status_mapping[stripped.s]
        ELSE IF status.t = "bool" THEN (IF status.b THEN 1 ELSE 0)
        ELSE IF int_status.exc = "" THEN (IF int_status.v = 0 THEN 0 ELSE 1)
        ELSE IF int_status.exc \notin {"ValueError", "TypeError"} THEN Propagates
        ELSE IF status.t = "dict" THEN normalize_dict(status, 1)
        ELSE 1


(***************************************************************************)
(* PaddyApp._edit_product_route: the status shown by the edit view.        *)
(* product is the dict fetched from Products/{id}.                         *)
(***************************************************************************)
\* bool(x)
Truthy(x) ==
    CASE x.t = "none" -> FALSE
      [] x.t = "bool" -> x.b
      [] x.t \in {"int", "float"} -> x.n # 0
      [] x.t = "str" -> x.s # ""
      [] x.t \in {"dict", "list"} -> Len(x.d) > 0
      [] OTHER -> TRUE

\* a or b
Or(a, b) == IF Truthy(a) THEN a ELSE b

\* the conversion applied to the status found in ECommerceSettings
edit_raw_status(raw_status) ==
    IF raw_status.t = "str"
    THEN (IF lower(raw_status.s) \in {"enabled", "available", "0"} THEN 0 ELSE 1)
    ELSE IF raw_status.t = "bool" THEN (IF raw_status.b THEN 0 ELSE 1)
    ELSE LET c == int_of(raw_status)
         IN  IF c.exc = "" THEN (IF c.v = 0 THEN 0 ELSE 1)
             ELSE IF c.exc \in {"ValueError", "TypeError"} THEN 1
             ELSE Propagates

\* the conversion applied to the status found in a legacy location
edit_legacy_status(legacy_status) ==
    IF legacy_status.t = "str"
    THEN (IF lower(legacy_status.s) \in {"0", "true", "enabled", "available"} THEN 0 ELSE 1)
    ELSE IF legacy_status.t = "bool" THEN (IF legacy_status.b THEN 0 ELSE 1)
    ELSE LET c == int_of(legacy_status)
         IN  IF c.exc = "" THEN (IF c.v = 0 THEN 0 ELSE 1)
             ELSE IF c.exc \in {"ValueError", "TypeError"} THEN 1
             ELSE Propagates

edit_status_value(product) ==
    LET ecommerce_settings ==
            IF HasKey(product, "ECommerceSettings")
            THEN GetItem(product, "ECommerceSettings") ELSE JDict(<<>>)
        raw_status == DictGet(ecommerce_settings, "ECommerceStatus")
        legacy_status ==
            Or(Or(Or(DictGet(product, "web_status"), DictGet(product, "WebStatus")),
                  DictGet(ecommerce_settings, "Value")),
               DictGet(ecommerce_settings, "WebStatus"))
    IN  IF Truthy(ecommerce_settings) /\ raw_status.t # "none"
        THEN edit_raw_status(raw_status)
        ELSE IF legacy_status.t # "none" THEN edit_legacy_status(legacy_status)
        ELSE 1

(***************************************************************************)
(* The raw statuses the normalizer and the edit view are run on.           *)
(***************************************************************************)
StatusStrings ==
    {"Available", "enabled", "Enabled", "TRUE", "true", "0", " Active ", "active",
     "Not Available", "disabled", "Disabled", "false", "1", "inactive", " 0 ",
     "2", "0.0", "00", "-0.5", "1.5", "inf", "-Infinity", "nan", "pending", "", "."}

Scalars ==
    {JNone, JBool(TRUE), JBool(FALSE), JList, JNaN, JInf(1), JInf(-1)}
    \cup {JInt(i) : i \in -MaxInt..MaxInt}
    \cup {JFloat(f) : f \in {0, 5, -9, 10, 25}}
    \cup {JStr(x) : x \in StatusStrings}

\* the values held under the second key of a two-key object
LaterValues == {JInt(0), JInt(1), JStr("Enabled"), JStr("Disabled")}

ObjectKeys == {dict_keys_to_check[i] : i \in 1..Len(dict_keys_to_check)} \cup {"Code"}

KeyIndex(key) ==
    IF \E i \in 1..Len(dict_keys_to_check) : dict_keys_to_check[i] = key
    THEN CHOOSE i \in 1..Len(dict_keys_to_check) : dict_keys_to_check[i] = key
    ELSE Len(dict_keys_to_check) + 1

\* objects of one key, and of two keys, over the given values
ObjectsOver(values) ==
    {JDict(<< <<k, v>> >>) : k \in ObjectKeys, v \in values}
    \cup {JDict(<< <<k[1], v>>, <<k[2], w>> >>) :
            k \in {p \in ObjectKeys \X ObjectKeys : KeyIndex(p[1]) < KeyIndex(p[2])},
            v \in {JInf(1), JStr("inf"), JStr("pending"), JBool(FALSE), JNone},
            w \in LaterValues}
    \cup {JDict(<<>>)}

RECURSIVE Objects(_)
Objects(depth) ==
    IF depth = 0 THEN {}
    ELSE ObjectsOver(Scalars) \cup
         {JDict(<< <<k, v>> >>) : k \in {"Value", "Status", "Code"}, v \in Objects(depth - 1)}

StatusInputs == Scalars \cup Objects(MaxNest + 1)

LegacyValues == {JNone, JInt(0), JStr("true"), JStr("Disabled")}

(***************************************************************************)
(* State.                                                                  *)
(***************************************************************************)
NotRun == -1
NoStatus == -1

VARIABLES
    status,        \* the raw status under examination
    normalized,    \* _normalize_ecommerce_status(status), NotRun before the call
    product,       \* the product served to the edit view, Absent before the call
    edit_status,   \* status_value of _edit_product_route, NotRun before the call
    upstream,      \* ECommerceSettings of the product as the catalog API holds it
    pc,            \* position of the running request
    caller,        \* the route that called update_product
    product_id,    \* the id of the product update_product is called for
    update_data,   \* the JSON body of the update request
    fetched,       \* ECommerceSettings of the GET made by the route before the PUT
    status_value,  \* local status_value of _update_product_route, NoStatus if unset
    update_payload,\* the payload handed to update_product
    put,           \* the last PUT sent upstream: [id, body, fetched, status, acked]
    puts,          \* number of PUTs sent upstream
    response,      \* the string update_product returns
    reread,        \* ECommerceStatus of the product re-read by the route
    reply,         \* the HTTP reply to the caller: [code, text]
    edits,         \* number of edits made upstream by other clients
    bulk_products, \* the products list of the bulk update request
    bulk_index,    \* position of the bulk update loop in bulk_products
    results,       \* results of the bulk update: [successful, failed, errors]
    entry_point,   \* the entry point of the running read request, "" when none runs
    query,         \* what the read route takes from its request: [sort, ajax]
    args,          \* the arguments of the call to the API client
    requests,      \* the requests the read request has sent upstream, in order
    answer,        \* how the catalog API answered the query: [failure, body]
    result,        \* what the call to the API client gave: [kind, exc, page]
    served,        \* the HTTP reply of a read route: [code, error, page]
    qpc,           \* position of the running read request
    cache,         \* the categories cache file
    writes,        \* the attempts to write the categories cache file, in order
    cache_read,    \* the categories cache file as the running call found it
    categories,    \* what get_categories gave: [kind, exc, data]
    calls,         \* number of calls to get_categories
    threads,       \* the concurrent calls to get_categories: [pc, found, data, wrote, gave]
    env_file,      \* the REQUEST_TIMEOUT line of api_config.env: [kind, n]
    REQUEST_TIMEOUT, \* Config.REQUEST_TIMEOUT
    timeout,       \* APIClient.timeout, 0 before the client is constructed
    tpc,           \* position of the application: import, create_app, requests
    sent,          \* the request handed to requests.request: [method, endpoint, timeout]
    received,      \* what came back for it: [kind, status, json]
    made,          \* what _make_request gave: [kind, exc, label]
    field_config_file, \* the field configuration file: [kind, data]
    config,        \* FieldConfig.config, Absent before the construction
    spc,           \* position of the field configuration: start, loaded, done
    asked,         \* the category_id get_category_fields was last called with
    active_fields, \* what get_category_fields gave: [exc, fields]
    edit_pc,       \* position of the request for the edit view
    edit_fetch,    \* what the catalog API gave for Products/{id}: [failure, body]
    edit_view      \* the reply of _edit_product_route: [code, error, product, dynamic_fields]

normalizer_vars == <<status, normalized, product, edit_status>>
update_vars == <<upstream, pc, caller, product_id, update_data, fetched, status_value,
                 update_payload, put, puts, response, reread, reply, edits>>
bulk_vars == <<bulk_products, bulk_index, results>>
read_vars == <<entry_point, query, args, requests, answer, result, served, qpc, cache, writes,
              cache_read, categories, calls, threads>>
transport_vars == <<env_file, REQUEST_TIMEOUT, timeout, tpc, sent, received, made>>
schema_vars == <<field_config_file, config, spc, asked, active_fields>>
edit_vars == <<edit_pc, edit_fetch, edit_view>>
vars == <<normalizer_vars, update_vars, bulk_vars, read_vars, transport_vars, schema_vars,
          edit_vars>>

NoPut == [id |-> 0, body |-> Absent, fetched |-> Absent, status |-> "", acked |-> FALSE]
NoResults == [successful |-> <<>>, failed |-> <<>>, errors |-> <<>>]
NoReply == [code |-> 0, text |-> ""]
NoRead == [sort |-> Absent, ajax |-> FALSE]
NoArgs == [category |-> Absent, code_query |-> Absent, description_query |-> Absent,
           page |-> 0, items_per_page |-> 0, sort_field |-> Absent,
           sort_direction |-> Absent]
NoPage == [TotalCount |-> 0, CurrentPage |-> 0, ItemsPerPage |-> 0, TotalPages |-> 0,
           Data |-> <<>>]
NoBody == [TotalCount |-> 0, Data |-> <<>>]
NoAnswer == [failure |-> "none", body |-> NoBody]
NoResult == [kind |-> "none", exc |-> "", page |-> NoPage]
NoServed == [code |-> 0, error |-> "", page |-> NoPage]
NoCache == [kind |-> "absent", data |-> Absent]
NoCategories == [kind |-> "none", exc |-> "", data |-> Absent]

MaxCallers == 2
Callers == 1..MaxCallers
NoThread == [pc |-> "idle", found |-> NoCache, data |-> Absent, wrote |-> FALSE,
             gave |-> NoCategories]
NoEnv == [kind |-> "unset", n |-> 0]
NoSent == [method |-> "", endpoint |-> "", timeout |-> 0]
NoReceived == [kind |-> "none", status |-> 0, json |-> FALSE]
NoOutcome == [kind |-> "none", exc |-> "", label |-> ""]
NoFields == [exc |-> "", fields |-> <<>>]
NoFetch == [failure |-> "none", body |-> Absent]
NoView == [code |-> 0, error |-> "", product |-> Absent, dynamic_fields |-> <<>>]

\* no request is running
Idle ==
    /\ pc = "idle"
    /\ caller = ""
    /\ product_id = 0
    /\ update_data = Absent
    /\ fetched = Absent
    /\ status_value = NoStatus
    /\ update_payload = Absent
    /\ put = NoPut
    /\ puts = 0
    /\ response = ""
    /\ reread = Absent
    /\ reply = NoReply
    /\ edits = 0
    /\ bulk_products = <<>>
    /\ bulk_index = 0
    /\ results = NoResults

\* the application is up with its defaults and sends nothing upstream
NoTransport ==
    /\ env_file = NoEnv
    /\ REQUEST_TIMEOUT = 15
    /\ timeout = 20
    /\ tpc = "ready"
    /\ sent = NoSent
    /\ received = NoReceived
    /\ made = NoOutcome

\* the field configuration is loaded from an empty file and is not asked
NoSchema ==
    /\ field_config_file = [kind |-> "empty", data |-> Absent]
    /\ config = JDict(<<>>)
    /\ spc = "loaded"
    /\ asked = Absent
    /\ active_fields = NoFields

\* no edit view is requested
NoEdit ==
    /\ edit_pc = "idle"
    /\ edit_fetch = NoFetch
    /\ edit_view = NoView

\* no read request is running
NoQuery ==
    /\ entry_point = ""
    /\ query = NoRead
    /\ args = NoArgs
    /\ requests = <<>>
    /\ answer = NoAnswer
    /\ result = NoResult
    /\ served = NoServed
    /\ qpc = "idle"
    /\ writes = <<>>
    /\ cache_read = NoCache
    /\ categories = NoCategories
    /\ calls = 0
    /\ threads = [p \in Callers |-> NoThread]

(***************************************************************************)
(* The normalizer and the edit view applied to one raw status.             *)
(***************************************************************************)
InitNormalize ==
    /\ status \in StatusInputs
    /\ normalized = NotRun
    /\ product = Absent
    /\ edit_status = NotRun
    /\ upstream = Absent
    /\ Idle
    /\ NoQuery
    /\ NoTransport
    /\ NoSchema
    /\ NoEdit
    /\ cache = NoCache

Normalize ==
    /\ normalized = NotRun
    /\ normalized' = normalize_ecommerce_status(status)
    /\ UNCHANGED <<transport_vars, schema_vars, edit_vars, status, product, edit_status, update_vars, bulk_vars, read_vars>>

EditProduct ==
    /\ edit_status = NotRun
    /\ \E legacy \in LegacyValues :
         product' = JDict(<< <<"ID", JInt(1)>>,
                             <<"ECommerceSettings", JDict(<< <<"ECommerceStatus", status>> >>)>>,
                             <<"web_status", legacy>> >>)
    /\ edit_status' = edit_status_value(product')
    /\ UNCHANGED <<transport_vars, schema_vars, edit_vars, status, normalized, update_vars, bulk_vars, read_vars>>

NextNormalize == Normalize \/ EditProduct

SpecNormalize == InitNormalize /\ [][NextNormalize]_vars

(***************************************************************************)
(* APIClient.update_product: the transformation of the payload.            *)
(***************************************************************************)
\* the object written with the availability flag in place of the integer
write_projection_flag_value(value) ==
    JDict(<< <<"Value", JBool(value = 0)>>,
             <<"Name", JStr(IF value = 1 THEN "Disabled" ELSE "Enabled")>>,
             <<"isAvailable", JBool(value = 0)>> >>)

\* the object written in place of ECommerceSettings.ECommerceStatus
write_projection(value) ==
    JDict(<< <<"Value", JInt(value)>>,
             <<"Name", JStr(IF value = 1 THEN "Disabled" ELSE "Enabled")>>,
             <<"isAvailable", JBool(value = 0)>> >>)

\* sub in str
Contains(str, sub) ==
    \E i \in 1..(Len(str) - Len(sub) + 1) : SubSeq(str, i, i + Len(sub) - 1) = sub

\* final_payload of update_product: [exc, payload]
final_payload(payload) ==
    IF ~HasKey(payload, "ECommerceSettings") THEN [exc |-> "", payload |-> payload]
    ELSE LET settings == GetItem(payload, "ECommerceSettings")
             converted == int_of(GetItem(settings, "ECommerceStatus"))
         IN  CASE settings.t = "dict" ->
                    IF ~HasKey(settings, "ECommerceStatus")
                    THEN [exc |-> "", payload |-> payload]
                    ELSE IF converted.exc # ""
                    THEN [exc |-> converted.exc, payload |-> payload]
                    ELSE [exc |-> "",
                          payload |-> SetItem(payload, "ECommerceSettings",
                                          SetItem(settings, "ECommerceStatus",
                                                  write_projection(converted.v)))]
               [] settings.t = "str" ->
                    IF Contains(settings.s, "ECommerceStatus")
                    THEN [exc |-> "TypeError", payload |-> payload]
                    ELSE [exc |-> "", payload |-> payload]
               [] settings.t = "list" -> [exc |-> "", payload |-> payload]
               [] OTHER -> [exc |-> "TypeError", payload |-> payload]

(***************************************************************************)
(* PaddyApp._update_product_route: the payload built from the request and  *)
(* from the ECommerceSettings just fetched.                                *)
(***************************************************************************)
ecommerce_status_key == "ECommerceSettings.ECommerceStatus"

allowed_fields ==
    {"D_Classification", "D_ThreadGender", "D_SizeA", "D_SizeB",
     "D_SizeC", "D_SizeD", "D_Orientation", "D_Configuration",
     "D_Grade", "D_ManufacturerName", "D_Application", "D_WebCategory"}

\* the status the request asks for, Absent when it asks for none
requested_status(data) ==
    IF HasKey(data, ecommerce_status_key) THEN GetItem(data, ecommerce_status_key)
    ELSE IF HasKey(data, "web_status") THEN GetItem(data, "web_status")
    ELSE Absent

\* [exc, status_value, payload]
route_payload(data, current_settings) ==
    LET requested == requested_status(data)
        value == IF requested.t = "absent" THEN NoStatus
                 ELSE normalize_ecommerce_status(requested)
        with_status == IF requested.t = "absent" THEN current_settings
                       ELSE SetItem(current_settings, "ECommerceStatus", JInt(value))
        ecommerce_settings_update ==
            IF HasKey(data, "extended_description")
            THEN SetItem(with_status, "ExtendedDescription",
                         GetItem(data, "extended_description"))
            ELSE with_status
        settings_item ==
            IF requested.t # "absent" \/ HasKey(data, "extended_description")
            THEN << <<"ECommerceSettings", ecommerce_settings_update>> >>
            ELSE <<>>
        dynamic == SelectSeq(data.d, LAMBDA item : item[1] \in allowed_fields)
    IN  [exc |-> (value = Propagates),
         status_value |-> value,
         payload |-> JDict(settings_item \o dynamic)]

(***************************************************************************)
(* The catalog API.                                                        *)
(***************************************************************************)
MaxEdits == 1

\* the id of the product whose ECommerceSettings the model follows
EditedProduct == 1

Settings(raw_status, other) ==
    JDict((IF raw_status.t = "absent" THEN <<>> ELSE << <<"ECommerceStatus", raw_status>> >>)
          \o << <<"ExtendedDescription", JStr("old text")>>,
                <<"OtherSetting", JStr(other)>> >>)

UpstreamStatuses ==
    {JStr("Enabled"), JStr("Disabled"), JInt(0), JBool(TRUE), JStr("inf"), Absent}

UpstreamStates ==
    {Settings(raw, other) : raw \in UpstreamStatuses, other \in {"a", "b"}} \cup {Absent}

\* the answers of the catalog API to a PUT: the Status of the response
\* ("missing" for an object without Status, "not a dict" for a body that is
\* no object, "APIError" for a failed request) and whether the write was made
PutOutcomes ==
    {[status |-> "Processed", applied |-> TRUE], [status |-> "Processed", applied |-> FALSE],
     [status |-> "Ok", applied |-> TRUE], [status |-> "Error", applied |-> FALSE],
     [status |-> "missing", applied |-> FALSE],
     [status |-> "not a dict", applied |-> FALSE], [status |-> "APIError", applied |-> FALSE]}

\* what the catalog API may hold after applying a PUT body
Stored(body, held) ==
    IF ~HasKey(body, "ECommerceSettings") \/ GetItem(body, "ECommerceSettings").t # "dict"
    THEN {held}
    ELSE LET settings == GetItem(body, "ECommerceSettings")
             written == DictGet(settings, "ECommerceStatus")
         IN  IF written.t = "dict" /\ HasKey(written, "Name")
             THEN {settings, SetItem(settings, "ECommerceStatus", GetItem(written, "Name"))}
             ELSE {settings}

UpdateRequests ==
    {JDict((IF st.t = "absent" THEN <<>> ELSE << <<ecommerce_status_key, st>> >>)
           \o (IF ws.t = "absent" THEN <<>> ELSE << <<"web_status", ws>> >>)
           \o (IF ed.t = "absent" THEN <<>> ELSE << <<"extended_description", ed>> >>)
           \o (IF gr.t = "absent" THEN <<>> ELSE << <<"D_Grade", gr>> >>)
           \o (IF co.t = "absent" THEN <<>> ELSE << <<"Code", co>> >>)) :
        st \in {Absent, JStr("Available"), JStr("Not Available"), JInt(0),
                JBool(TRUE), JStr("inf")},
        ws \in {Absent, JStr("Not Available")},
        ed \in {Absent, JStr("new text")},
        gr \in {Absent, JStr("A")},
        co \in {Absent, JStr("X1")}}

(***************************************************************************)
(* POST /update_product/{id}: _update_product_route and update_product.    *)
(***************************************************************************)
Init ==
    /\ status = JNone
    /\ normalized = NotRun
    /\ product = Absent
    /\ edit_status = NotRun
    /\ upstream \in UpstreamStates
    /\ Idle
    /\ NoQuery
    /\ NoTransport
    /\ NoSchema
    /\ NoEdit
    /\ cache = NoCache

Reply(code, text) == [code |-> code, text |-> text]

\* the request arrives; an empty body is answered 400
StartUpdate ==
    /\ pc = "idle"
    /\ \E data \in UpdateRequests :
         /\ update_data' = data
         /\ IF Len(data.d) = 0
            THEN /\ reply' = Reply(400, "No update data provided")
                 /\ pc' = "done"
            ELSE /\ reply' = reply
                 /\ pc' = "get_current"
    /\ caller' = "route"
    /\ product_id' = EditedProduct
    /\ UNCHANGED <<transport_vars, schema_vars, edit_vars, read_vars, normalizer_vars, bulk_vars, upstream, fetched, status_value, update_payload,
                   put, puts, response, reread, edits>>

\* GET Products/{id}, then the payload is built
GetCurrentProduct ==
    /\ pc = "get_current"
    /\ LET current_settings == IF upstream.t = "absent" THEN JDict(<<>>) ELSE upstream
           built == route_payload(update_data, current_settings)
       IN  /\ fetched' = current_settings
           /\ IF built.exc
              THEN /\ reply' = Reply(500, "Error updating product")
                   /\ pc' = "done"
                   /\ UNCHANGED <<status_value, update_payload>>
              ELSE /\ status_value' = built.status_value
                   /\ update_payload' = built.payload
                   /\ pc' = "update_product"
                   /\ reply' = reply
    /\ UNCHANGED <<transport_vars, schema_vars, edit_vars, read_vars, normalizer_vars, bulk_vars, product_id, upstream, caller, update_data, put, puts,
                   response, reread, edits>>

\* GET Products/{id} raises APIError
GetCurrentProductFails ==
    /\ pc = "get_current"
    /\ reply' = Reply(500, "Error updating product")
    /\ pc' = "done"
    /\ UNCHANGED <<transport_vars, schema_vars, edit_vars, read_vars, normalizer_vars, bulk_vars, product_id, upstream, caller, update_data, fetched, status_value,
                   update_payload, put, puts, response, reread, edits>>

\* update_product up to the answer to its PUT
UpdateProductPut ==
    /\ pc = "update_product"
    /\ LET final == final_payload(update_payload)
       IN  IF final.exc # ""
           THEN /\ response' = "Error updating product"
                /\ pc' = "returned"
                /\ UNCHANGED <<upstream, put, puts>>
           ELSE \E outcome \in PutOutcomes :
                  /\ put' = [id |-> product_id, body |-> final.payload,
                             fetched |-> fetched, status |-> outcome.status,
                             acked |-> outcome.status = "Processed"]
                  /\ puts' = puts + 1
                  /\ upstream' \in (IF outcome.applied /\ product_id = EditedProduct
                                    THEN Stored(final.payload, upstream) ELSE {upstream})
                  /\ IF outcome.status = "Processed"
                     THEN /\ pc' = "confirm"
                          /\ response' = response
                     ELSE /\ pc' = "returned"
                          /\ response' =
                               CASE outcome.status = "not a dict" ->
                                      "Unexpected response format from API"
                                 [] outcome.status = "APIError" -> "Error updating product"
                                 [] OTHER -> "Failed to update product"
    /\ UNCHANGED <<transport_vars, schema_vars, edit_vars, read_vars, normalizer_vars, bulk_vars, product_id, caller, update_data, fetched,
                   status_value, update_payload, reread, reply, edits>>

\* update_product re-reads the product after a Processed answer
UpdateProductConfirm ==
    /\ pc = "confirm"
    /\ \E ok \in BOOLEAN :
         response' = IF ok THEN "Product updated successfully" ELSE "Error updating product"
    /\ pc' = "returned"
    /\ UNCHANGED <<transport_vars, schema_vars, edit_vars, read_vars, normalizer_vars, bulk_vars, product_id, upstream, caller, update_data, fetched, status_value,
                   update_payload, put, puts, reread, reply, edits>>

\* the verification of the route: expected_status against the product re-read
verification(expected_status, current_status) ==
    IF current_status = Propagates THEN Reply(500, "Error updating product")
    ELSE IF expected_status # NoStatus /\ expected_status # current_status
    THEN Reply(500, "Status update verification failed")
    ELSE Reply(200, "Product updated successfully")

\* the route re-reads the product and verifies the status
VerifyUpdate ==
    /\ pc = "returned"
    /\ caller = "route"
    /\ response = "Product updated successfully"
    /\ LET updated_status ==
               IF upstream.t = "absent" THEN JNone ELSE DictGet(upstream, "ECommerceStatus")
       IN  /\ reread' = updated_status
           /\ reply' = verification(status_value, normalize_ecommerce_status(updated_status))
    /\ pc' = "done"
    /\ UNCHANGED <<transport_vars, schema_vars, edit_vars, read_vars, normalizer_vars, bulk_vars, product_id, upstream, caller, update_data, fetched, status_value,
                   update_payload, put, puts, response, edits>>

\* the re-read of the route raises APIError
VerifyUpdateFails ==
    /\ pc = "returned"
    /\ caller = "route"
    /\ response = "Product updated successfully"
    /\ reply' = Reply(500, "Error updating product")
    /\ pc' = "done"
    /\ UNCHANGED <<transport_vars, schema_vars, edit_vars, read_vars, normalizer_vars, bulk_vars, product_id, upstream, caller, update_data, fetched, status_value,
                   update_payload, put, puts, response, reread, edits>>

\* update_product did not report success
UpdateFailed ==
    /\ pc = "returned"
    /\ caller = "route"
    /\ response # "Product updated successfully"
    /\ reply' = Reply(500, "Failed to update product")
    /\ pc' = "done"
    /\ UNCHANGED <<transport_vars, schema_vars, edit_vars, read_vars, normalizer_vars, bulk_vars, product_id, upstream, caller, update_data, fetched, status_value,
                   update_payload, put, puts, response, reread, edits>>

\* another client of the catalog API edits the product
OtherClientEdit ==
    /\ pc \notin {"idle", "done"}
    /\ edits < MaxEdits
    /\ upstream' \in UpstreamStates \ {upstream}
    /\ edits' = edits + 1
    /\ UNCHANGED <<transport_vars, schema_vars, edit_vars, read_vars, normalizer_vars, bulk_vars, product_id, pc, caller, update_data, fetched,
                   status_value, update_payload, put, puts, response, reread, reply>>

Next ==
    \/ StartUpdate
    \/ GetCurrentProduct
    \/ GetCurrentProductFails
    \/ UpdateProductPut
    \/ UpdateProductConfirm
    \/ VerifyUpdate
    \/ VerifyUpdateFails
    \/ UpdateFailed
    \/ OtherClientEdit

Spec == Init /\ [][Next]_vars

(***************************************************************************)
(* POST /api/products/bulk-update: _bulk_update_products_route.            *)
(***************************************************************************)
MaxBulk == 2

BulkUpdates ==
    {JDict(<<>>),
     JDict(<< <<"D_Grade", JStr("A")>> >>),
     JDict(<< <<"Code", JStr("X1")>>, <<"D_Grade", JStr("A")>> >>),
     JDict(<< <<"ECommerceSettings", JDict(<< <<"ECommerceStatus", JInt(1)>> >>)>> >>),
     JDict(<< <<"ECommerceSettings",
                JDict(<< <<"ECommerceStatus", JStr("Enabled")>>,
                         <<"ExtendedDescription", JStr("new text")>> >>)>>,
              <<"Code", JStr("X1")>> >>)}

BulkEntries == [id : {JNone, JInt(1), JInt(2)}, updates : BulkUpdates]

RECURSIVE SeqsUpTo(_, _)
SeqsUpTo(set, len) ==
    IF len = 0 THEN {<<>>}
    ELSE LET shorter == SeqsUpTo(set, len - 1)
         IN  shorter \cup {Append(q, e) : q \in {r \in shorter : Len(r) = len - 1}, e \in set}

BulkRequests == SeqsUpTo(BulkEntries, MaxBulk)

InitBulk ==
    /\ status = JNone
    /\ normalized = NotRun
    /\ product = Absent
    /\ edit_status = NotRun
    /\ upstream = Settings(JStr("Enabled"), "a")
    /\ Idle
    /\ NoQuery
    /\ NoTransport
    /\ NoSchema
    /\ NoEdit
    /\ cache = NoCache

\* the request arrives; a body without products is answered 400
StartBulk ==
    /\ pc = "idle"
    /\ caller' = "bulk"
    /\ \E has_products \in BOOLEAN :
         IF has_products
         THEN /\ bulk_products' \in BulkRequests
              /\ bulk_index' = 1
              /\ pc' = "bulk_loop"
              /\ reply' = reply
         ELSE /\ reply' = Reply(400, "No products provided for update")
              /\ pc' = "done"
              /\ UNCHANGED <<bulk_products, bulk_index>>
    /\ UNCHANGED <<transport_vars, schema_vars, edit_vars, read_vars, normalizer_vars, results, product_id, upstream, update_data, fetched,
                   status_value, update_payload, put, puts, response, reread, edits>>

\* an entry without id or without updates is passed over
BulkSkip ==
    /\ pc = "bulk_loop"
    /\ bulk_index <= Len(bulk_products)
    /\ LET entry == bulk_products[bulk_index]
       IN  ~Truthy(entry.id) \/ ~Truthy(entry.updates)
    /\ bulk_index' = bulk_index + 1
    /\ UNCHANGED <<transport_vars, schema_vars, edit_vars, read_vars, normalizer_vars, update_vars, bulk_products, results>>

\* update_product is called with the updates of the entry as they came
BulkCall ==
    /\ pc = "bulk_loop"
    /\ bulk_index <= Len(bulk_products)
    /\ LET entry == bulk_products[bulk_index]
       IN  /\ Truthy(entry.id) /\ Truthy(entry.updates)
           /\ product_id' = entry.id.n
           /\ update_payload' = entry.updates
    /\ pc' = "update_product"
    /\ UNCHANGED <<transport_vars, schema_vars, edit_vars, read_vars, normalizer_vars, bulk_vars, upstream, caller, update_data, fetched,
                   status_value, put, puts, response, reread, reply, edits>>

\* the answer of update_product is recorded
BulkRecord ==
    /\ pc = "returned"
    /\ caller = "bulk"
    /\ results' =
         IF response = "Product updated successfully"
         THEN [results EXCEPT !.successful = Append(@, product_id)]
         ELSE [results EXCEPT !.failed = Append(@, product_id),
                              !.errors = SetItem(JDict(@), product_id, response).d]
    /\ bulk_index' = bulk_index + 1
    /\ pc' = "bulk_loop"
    /\ UNCHANGED <<transport_vars, schema_vars, edit_vars, read_vars, normalizer_vars, bulk_products, product_id, upstream, caller, update_data,
                   fetched, status_value, update_payload, put, puts, response, reread,
                   reply, edits>>

\* the status code of the bulk update
bulk_status_code_no_partial(res) == IF Len(res.failed) > 0 THEN 500 ELSE 200
bulk_status_code(res) ==
    IF Len(res.successful) = 0 /\ Len(res.failed) > 0 THEN 500
    ELSE IF Len(res.failed) > 0 THEN 207
    ELSE 200

\* the loop is over
BulkFinish ==
    /\ pc = "bulk_loop"
    /\ bulk_index > Len(bulk_products)
    /\ reply' = Reply(bulk_status_code(results), "results")
    /\ pc' = "done"
    /\ UNCHANGED <<transport_vars, schema_vars, edit_vars, read_vars, normalizer_vars, bulk_vars, product_id, upstream, caller, update_data,
                   fetched, status_value, update_payload, put, puts, response, reread, edits>>

NextBulk ==
    \/ StartBulk
    \/ BulkSkip
    \/ BulkCall
    \/ UpdateProductPut
    \/ UpdateProductConfirm
    \/ BulkRecord
    \/ BulkFinish

SpecBulk == InitBulk /\ [][NextBulk]_vars


(***************************************************************************)
(* APIClient._make_request, get_products and search_products_api.          *)
(***************************************************************************)
MAX_ITEMS_PER_PAGE == 30

valid_sort_fields ==
    {"Code", "Description", "ImageCount", "D_WebCategory",
     "D_Classification", "D_ThreadGender",
     "D_SizeA", "D_SizeB", "D_SizeC", "D_SizeD",
     "D_Orientation", "D_Configuration", "D_Grade",
     "D_ManufacturerName", "D_Application"}

\* a // b
FloorDiv(a, b) == IF b > 0 THEN a \div b ELSE (-a) \div (-b)

\* min(a, b)
Min(a, b) == IF a <= b THEN a ELSE b

\* the value of a parameter, its default when the caller leaves it out
Default(value, default) == IF value.t = "absent" THEN default ELSE value

\* a GET sent upstream: the endpoint and the query parameters, Absent for a
\* parameter that is not sent
Request(endpoint, category, code, description, offset, fetch, sort) ==
    [endpoint |-> endpoint, category |-> category, code |-> code,
     description |-> description, offset |-> offset, fetch |-> fetch, sort |-> sort]

\* the ways a request fails
TransportFailures ==
    {"ConnectionError", "Timeout", "HTTPError", "JSONDecodeError", "RequestException"}

\* the exception _make_request raises for a failure, the body not decoded
\* being left as it is raised
raised_by_make_request_undecoded(failure) ==
    IF failure = "JSONDecodeError" THEN "JSONDecodeError" ELSE "APIError"

\* the exception _make_request raises for a failure
raised_by_make_request(failure) ==
    CASE failure = "HTTPError" -> "APIError"
      [] failure = "JSONDecodeError" -> "APIError"
      [] failure = "ConnectionError" -> "APIError"
      [] failure = "Timeout" -> "APIError"
      [] OTHER -> "APIError"

Page(total_count, page, items_per_page, total_pages, data) ==
    [TotalCount |-> total_count, CurrentPage |-> page, ItemsPerPage |-> items_per_page,
     TotalPages |-> total_pages, Data |-> data]

\* the page returned in place of an error
EmptyPage(page, items_per_page) == Page(0, page, items_per_page, 0, <<>>)

GavePage(page) == [kind |-> "page", exc |-> "", page |-> page]
Raises(exc) == [kind |-> "raise", exc |-> exc, page |-> NoPage]

\* the sort parameter of get_products: [exc, sort]
products_sort(sort_field, sort_direction) ==
    IF ~Truthy(sort_field) THEN [exc |-> "", sort |-> "Code[asc]"]
    ELSE IF sort_direction.t # "str" THEN [exc |-> "AttributeError", sort |-> ""]
    ELSE LET lowered == lower(sort_direction.s)
             direction == IF lowered \in {"asc", "dsc"} THEN lowered ELSE "asc"
         IN  [exc |-> "",
              sort |-> IF sort_field.t = "str" /\ sort_field.s \in valid_sort_fields
                       THEN sort_field.s \o "[" \o direction \o "]"
                       ELSE "Code[asc]"]

\* get_products up to its request: [exc, params]
get_products_params(category_id, page, items_per_page, sort_field, sort_direction) ==
    LET sorted == products_sort(sort_field, sort_direction)
    IN  IF ~Truthy(category_id) THEN [exc |-> "ValueError", params |-> <<>>]
        ELSE IF sorted.exc # "" THEN [exc |-> sorted.exc, params |-> <<>>]
        ELSE [exc |-> "",
              params |-> <<Request("Products", category_id, Absent, Absent,
                                   (page - 1) * items_per_page, items_per_page,
                                   sorted.sort)>>]

\* product.get('Category', {}).get('ID'): [exc, id]
category_of(item) ==
    LET category == IF HasKey(item, "Category") THEN GetItem(item, "Category")
                    ELSE JDict(<<>>)
    IN  IF category.t # "dict" THEN [exc |-> "AttributeError", id |-> JNone]
        ELSE [exc |-> "", id |-> DictGet(category, "ID")]

\* get_products after the answer all_products of the catalog API
get_products_page(all_products, category_id, page, items_per_page) ==
    IF items_per_page = 0 THEN Raises("ZeroDivisionError")
    ELSE IF \E i \in 1..Len(all_products.Data) : category_of(all_products.Data[i]).exc # ""
    THEN Raises("AttributeError")
    ELSE GavePage(Page(all_products.TotalCount, page, items_per_page,
                       FloorDiv(all_products.TotalCount + items_per_page - 1,
                                items_per_page),
                       SelectSeq(all_products.Data,
                                 LAMBDA item : category_of(item).id = category_id)))

\* get_products after a failure of its request
get_products_failed(exception, page, items_per_page) ==
    IF exception = "APIError" THEN GavePage(EmptyPage(page, items_per_page))
    ELSE Raises(exception)

\* search_products_api up to its request
search_params(category, code_query, description_query, page, items_per_page) ==
    LET limit == Min(items_per_page, MAX_ITEMS_PER_PAGE)
    IN  Request("Products",
                IF Truthy(category) THEN category ELSE Absent,
                IF Truthy(code_query) THEN code_query ELSE Absent,
                IF Truthy(description_query) THEN description_query ELSE Absent,
                (page - 1) * limit, limit, "Code[asc]")

\* search_products_api after the answer of the catalog API
search_page(found, page, items_per_page) ==
    LET limit == Min(items_per_page, MAX_ITEMS_PER_PAGE)
    IN  IF limit = 0 THEN GavePage(EmptyPage(page, limit))
        ELSE GavePage(Page(found.TotalCount, page, limit,
                           FloorDiv(found.TotalCount + limit - 1, limit),
                           found.Data))

\* search_products_api after a failure of its request
search_failed(exception, page, items_per_page) ==
    GavePage(EmptyPage(page, Min(items_per_page, MAX_ITEMS_PER_PAGE)))

(***************************************************************************)
(* PaddyApp._parse_sort_param.                                             *)
(***************************************************************************)
allowed_sort_fields ==
    {"Code", "Description", "ImageCount", "D_WebCategory",
     "D_Classification", "D_ThreadGender", "D_SizeA",
     "D_SizeB", "D_SizeC", "D_SizeD", "D_Orientation",
     "D_Configuration", "D_Grade", "D_ManufacturerName",
     "D_Application"}

\* c matches \w
IsWordChar(c) ==
    \/ c = "_"
    \/ IsDigit(c)
    \/ \E i \in 1..26 : c = CharAt(UpperChars, i) \/ c = CharAt(LowerChars, i)

\* the length of the longest prefix of str that matches \w*
RECURSIVE WordPrefix(_)
WordPrefix(str) ==
    IF Len(str) > 0 /\ IsWordChar(CharAt(str, 1))
    THEN 1 + WordPrefix(SubSeq(str, 2, Len(str)))
    ELSE 0

\* re.match(r'(\w+)\[(asc|dsc)\]', str): [matched, field, direction]
match_sort(str) ==
    LET n == WordPrefix(str)
    IN  IF n > 0 /\ Len(str) >= n + 5 /\ SubSeq(str, n + 1, n + 5) \in {"[asc]", "[dsc]"}
        THEN [matched |-> TRUE, field |-> SubSeq(str, 1, n),
              direction |-> SubSeq(str, n + 2, n + 4)]
        ELSE [matched |-> FALSE, field |-> "", direction |-> ""]

\* [field, direction]
parse_sort_param(sort_param) ==
    IF ~Truthy(sort_param) THEN [field |-> JNone, direction |-> "asc"]
    ELSE LET match == match_sort(sort_param.s)
         IN  IF match.matched /\ match.field \in allowed_sort_fields
             THEN [field |-> JStr(match.field), direction |-> match.direction]
             ELSE [field |-> JNone, direction |-> "asc"]

(***************************************************************************)
(* The read requests: their inputs and the answers of the catalog API.     *)
(***************************************************************************)
MaxCategory == 2
MaxPage == 2
MaxOver == 1
MaxData == 2

CategoryIds == {JNone} \cup {JInt(c) : c \in 0..MaxCategory}
Pages == -1..MaxPage
PageSizes == {0, 1} \cup ((MAX_ITEMS_PER_PAGE - 1)..(MAX_ITEMS_PER_PAGE + MaxOver))
SortFields == {Absent, JNone, JStr(""), JStr("Code"), JStr("D_Grade"), JStr("Price")}
SortDirections ==
    {Absent, JNone, JStr("asc"), JStr("dsc"), JStr("ASC"), JStr("desc"), JStr("")}
SortParams ==
    {JNone, JStr(""), JStr("Code[asc]"), JStr("D_Grade[dsc]"), JStr("Price[asc]"),
     JStr("Code[desc]"), JStr("Code"), JStr("Code[dsc]x"), JStr("(Code)[asc]"),
     JStr("code[asc]")}
SearchCategories == {JNone, JStr("")} \cup {JStr(CharAt(Digits, c + 1)) : c \in 1..MaxCategory}
SearchWords == {JNone, JStr(""), JStr("AB")}

\* a product of the catalog: in category c, without Category (c = 0), or
\* with a null Category (c = -1)
CatalogProduct(id, c) ==
    JDict(<< <<"ID", JInt(id)>> >>
          \o (CASE c = 0 -> <<>>
                [] c = -1 -> << <<"Category", JNone>> >>
                [] OTHER -> << <<"Category", JDict(<< <<"ID", JInt(c)>> >>)>> >>))

CatalogProducts == {CatalogProduct(c + 2, c) : c \in -1..MaxCategory}

\* the answers of the catalog API to a products query
UpstreamAnswers ==
    [TotalCount : {0, MAX_ITEMS_PER_PAGE + 1}, Data : SeqsUpTo(CatalogProducts, MaxData)]

\* GET ProductCategories as get_categories sends it (no offset, no sort)
CategoriesRequest == Request("ProductCategories", Absent, Absent, Absent, 0, 37, "")

Served(code, error, page) == [code |-> code, error |-> error, page |-> page]

default_items_per_page == 30

(***************************************************************************)
(* GET /products/{category_id}, GET /api/search, GET /api/search/all and   *)
(* the calls to get_products and search_products_api.                      *)
(***************************************************************************)
InitQuery ==
    /\ status = JNone
    /\ normalized = NotRun
    /\ product = Absent
    /\ edit_status = NotRun
    /\ upstream = Absent
    /\ Idle
    /\ NoQuery
    /\ NoTransport
    /\ NoSchema
    /\ NoEdit
    /\ cache = NoCache

Args(category, code_query, description_query, page, items_per_page, sort_field, sort_direction) ==
    [category |-> category, code_query |-> code_query,
     description_query |-> description_query, page |-> page,
     items_per_page |-> items_per_page, sort_field |-> sort_field,
     sort_direction |-> sort_direction]

\* get_products runs up to its request, or raises before it
StartGetProducts(point, category_id, page, items_per_page, sort_field, sort_direction) ==
    LET built == get_products_params(category_id, page, items_per_page,
                                     Default(sort_field, JNone),
                                     Default(sort_direction, JStr("asc")))
    IN  /\ entry_point' = point
        /\ args' = Args(category_id, Absent, Absent, page, items_per_page, sort_field,
                        sort_direction)
        /\ requests' = requests \o built.params
        /\ IF built.exc # ""
           THEN result' = Raises(built.exc) /\ qpc' = "done"
           ELSE result' = result /\ qpc' = "upstream"

\* search_products_api runs up to its request
StartSearch(point, category, code_query, description_query, page, items_per_page) ==
    /\ entry_point' = point
    /\ args' = Args(category, code_query, description_query, page, items_per_page,
                    Absent, Absent)
    /\ requests' = Append(requests, search_params(Default(category, JNone),
                                                  Default(code_query, JNone),
                                                  Default(description_query, JNone),
                                                  page, items_per_page))
    /\ result' = result
    /\ qpc' = "upstream"

\* a call to get_products
CallGetProducts ==
    /\ qpc = "idle"
    /\ \E category_id \in CategoryIds, page \in Pages, items_per_page \in PageSizes,
          sort_field \in SortFields, sort_direction \in SortDirections :
         StartGetProducts("get_products", category_id, page, items_per_page,
                          sort_field, sort_direction)
    /\ UNCHANGED <<transport_vars, schema_vars, edit_vars, normalizer_vars, update_vars, bulk_vars, query, answer, served, cache, writes,
                   cache_read, categories, calls, threads>>

\* a call to search_products_api
CallSearchProductsApi ==
    /\ qpc = "idle"
    /\ \E category \in SearchCategories, code_query \in SearchWords,
          description_query \in SearchWords, page \in Pages,
          items_per_page \in PageSizes :
         StartSearch("search_products_api", category, code_query, description_query,
                     page, items_per_page)
    /\ UNCHANGED <<transport_vars, schema_vars, edit_vars, normalizer_vars, update_vars, bulk_vars, query, answer, served, cache, writes,
                   cache_read, categories, calls, threads>>

\* _products_route up to the request of get_products
ProductsRoute ==
    /\ qpc = "idle"
    /\ \E category_id \in 0..MaxCategory, page \in Pages, sort_param \in SortParams,
          is_ajax \in BOOLEAN :
         LET parsed == parse_sort_param(sort_param)
         IN  /\ query' = [sort |-> sort_param, ajax |-> is_ajax]
             /\ StartGetProducts("_products_route", JInt(category_id), page,
                                 default_items_per_page, parsed.field,
                                 JStr(parsed.direction))
    /\ served' = IF result'.kind = "raise" THEN Served(500, "error", NoPage) ELSE served
    /\ UNCHANGED <<transport_vars, schema_vars, edit_vars, normalizer_vars, update_vars, bulk_vars, answer, cache, writes,
                   cache_read, categories, calls, threads>>

\* _api_search_route up to the request of search_products_api
ApiSearchRoute ==
    /\ qpc = "idle"
    /\ \E category \in SearchCategories, code_query \in SearchWords, page \in Pages,
          per_page \in PageSizes :
         IF ~Truthy(category) /\ ~Truthy(code_query)
         THEN /\ entry_point' = "_api_search_route"
              /\ served' = Served(400, "At least one search parameter (category or code) is required",
                                  NoPage)
              /\ qpc' = "done"
              /\ UNCHANGED <<args, requests, result>>
         ELSE /\ StartSearch("_api_search_route", category, code_query, Absent, page,
                             Min(per_page, MAX_ITEMS_PER_PAGE))
              /\ served' = served
    /\ UNCHANGED <<transport_vars, schema_vars, edit_vars, normalizer_vars, update_vars, bulk_vars, query, answer, cache, writes,
                   cache_read, categories, calls, threads>>

\* _all_products_search_route up to the request of search_products_api
AllProductsSearchRoute ==
    /\ qpc = "idle"
    /\ \E code_query \in SearchWords \ {JNone}, description_query \in SearchWords \ {JNone},
          page \in Pages :
         StartSearch("_all_products_search_route", Absent, code_query,
                     description_query, page, default_items_per_page)
    /\ UNCHANGED <<transport_vars, schema_vars, edit_vars, normalizer_vars, update_vars, bulk_vars, query, answer, served, cache, writes,
                   cache_read, categories, calls, threads>>

\* the route answers with what the API client gave
RouteReply ==
    CASE entry_point = "_products_route" ->
           IF result'.kind = "raise"
           THEN served' = Served(500, "error", NoPage) /\ requests' = requests
           ELSE IF query.ajax
           THEN served' = Served(200, "", result'.page) /\ requests' = requests
           ELSE \E cached \in BOOLEAN, lookup \in {"found", "not found", "raises"} :
                  /\ requests' = IF ~cached THEN Append(requests, CategoriesRequest)
                                 ELSE requests
                  /\ served' = CASE lookup = "found" -> Served(200, "", result'.page)
                                 [] lookup = "not found" ->
                                      Served(404, "Category not found", NoPage)
                                 [] OTHER -> Served(500, "error", NoPage)
      [] entry_point \in {"_api_search_route", "_all_products_search_route"} ->
           served' = Served(200, "", result'.page) /\ requests' = requests
      [] OTHER -> served' = served /\ requests' = requests

\* the catalog API answers the query of get_products
GetProductsAnswered ==
    /\ qpc = "upstream"
    /\ entry_point \in {"get_products", "_products_route"}
    /\ \E all_products \in UpstreamAnswers :
         /\ answer' = [failure |-> "", body |-> all_products]
         /\ result' = get_products_page(all_products, args.category, args.page,
                                        args.items_per_page)
    /\ RouteReply
    /\ qpc' = "done"
    /\ UNCHANGED <<transport_vars, schema_vars, edit_vars, normalizer_vars, update_vars, bulk_vars, entry_point, args, query,
                   cache, writes,
                   cache_read, categories, calls, threads>>

\* the query of get_products fails
GetProductsFailed ==
    /\ qpc = "upstream"
    /\ entry_point \in {"get_products", "_products_route"}
    /\ \E failure \in TransportFailures :
         /\ answer' = [failure |-> failure, body |-> NoBody]
         /\ result' = get_products_failed(raised_by_make_request(failure), args.page,
                                          args.items_per_page)
    /\ RouteReply
    /\ qpc' = "done"
    /\ UNCHANGED <<transport_vars, schema_vars, edit_vars, normalizer_vars, update_vars, bulk_vars, entry_point, args, query,
                   cache, writes,
                   cache_read, categories, calls, threads>>

\* the catalog API answers the query of search_products_api
SearchAnswered ==
    /\ qpc = "upstream"
    /\ entry_point \in {"search_products_api", "_api_search_route",
                        "_all_products_search_route"}
    /\ \E found \in UpstreamAnswers :
         /\ answer' = [failure |-> "", body |-> found]
         /\ result' = search_page(found, args.page, args.items_per_page)
    /\ RouteReply
    /\ qpc' = "done"
    /\ UNCHANGED <<transport_vars, schema_vars, edit_vars, normalizer_vars, update_vars, bulk_vars, entry_point, args, query,
                   cache, writes,
                   cache_read, categories, calls, threads>>

\* the query of search_products_api fails
SearchFailed ==
    /\ qpc = "upstream"
    /\ entry_point \in {"search_products_api", "_api_search_route",
                        "_all_products_search_route"}
    /\ \E failure \in TransportFailures :
         /\ answer' = [failure |-> failure, body |-> NoBody]
         /\ result' = search_failed(raised_by_make_request(failure), args.page,
                                    args.items_per_page)
    /\ RouteReply
    /\ qpc' = "done"
    /\ UNCHANGED <<transport_vars, schema_vars, edit_vars, normalizer_vars, update_vars, bulk_vars, entry_point, args, query,
                   cache, writes,
                   cache_read, categories, calls, threads>>

NextQuery ==
    \/ CallGetProducts
    \/ CallSearchProductsApi
    \/ ProductsRoute
    \/ ApiSearchRoute
    \/ AllProductsSearchRoute
    \/ GetProductsAnswered
    \/ GetProductsFailed
    \/ SearchAnswered
    \/ SearchFailed

SpecQuery == InitQuery /\ [][NextQuery]_vars


(***************************************************************************)
(* APIClient.get_categories and the categories cache file.                 *)
(***************************************************************************)
MaxCalls == 2

\* a JSON array
JListOf(items) == [t |-> "list", b |-> FALSE, n |-> 0, s |-> "", d |-> items]

\* the categories cache file: absent, holding JSON text ("json", with the
\* value the text stands for), holding text that is no JSON ("corrupt"),
\* failing to be opened or read ("unreadable"), or holding bytes that the
\* encoding of the file cannot decode ("undecodable")
CacheFile(kind, data) == [kind |-> kind, data |-> data]

\* the categories object with the categories 1..k
Snapshot(k) ==
    JDict(<< <<"TotalCount", JInt(k)>>,
             <<"Data", JListOf([c \in 1..k |-> JDict(<< <<"ID", JInt(c)>> >>)])>> >>)

CategorySnapshots == {Snapshot(k) : k \in 0..MaxCategory}

\* JSON values that are no categories object
OtherJson == {JListOf(<<>>), JDict(<<>>), JDict(<< <<"Data", JNone>> >>)}

CacheStates ==
    {NoCache}
    \cup {CacheFile("json", data) : data \in CategorySnapshots \cup OtherJson}
    \cup {CacheFile(kind, Absent) : kind \in {"corrupt", "unreadable", "undecodable"}}

\* the answers of the catalog API to GET ProductCategories
CategoryAnswers == CategorySnapshots \cup {JListOf(<<>>)}

\* the outcomes of open(CACHE_FILE, 'w') followed by json.dump
WriteOutcomes == {"written", "open fails", "dump fails"}

GaveCategories(data) == [kind |-> "data", exc |-> "", data |-> data]
RaisesFromCategories(exc) == [kind |-> "raise", exc |-> exc, data |-> Absent]

\* len(data.get('Data', [])), evaluated for the log record: the exception it
\* raises, "" when it raises none
categories_count(data) ==
    IF data.t # "dict" THEN "AttributeError"
    ELSE IF HasKey(data, "Data") /\ GetItem(data, "Data").t \notin {"list", "str", "dict"}
    THEN "TypeError"
    ELSE ""

\* the first part of get_categories: [outcome, categories]; outcome is
\* "return", "raise" or "fetch"
read_cache(file) ==
    CASE file.kind = "absent" -> [outcome |-> "fetch", categories |-> NoCategories]
      [] file.kind = "json" ->
           IF categories_count(file.data) # ""
           THEN [outcome |-> "raise",
                 categories |-> RaisesFromCategories(categories_count(file.data))]
           ELSE [outcome |-> "return", categories |-> GaveCategories(file.data)]
      [] file.kind \in {"corrupt", "unreadable"} ->
           [outcome |-> "fetch", categories |-> NoCategories]
      [] OTHER -> [outcome |-> "raise",
                   categories |-> RaisesFromCategories("UnicodeDecodeError")]

\* the cache file after an attempt to write data
written_cache(file, data, outcome) ==
    CASE outcome = "written" -> CacheFile("json", data)
      [] outcome = "dump fails" -> CacheFile("corrupt", Absent)
      [] OTHER -> file

\* get_categories after the answer data of the catalog API
fetched_categories(data, outcome) ==
    IF outcome = "written" /\ categories_count(data) # ""
    THEN RaisesFromCategories(categories_count(data))
    ELSE GaveCategories(data)

\* get_categories after a failure of its request
categories_failed(exception) ==
    IF exception = "APIError"
    THEN GaveCategories(JDict(<< <<"TotalCount", JInt(0)>>, <<"Data", JListOf(<<>>)>> >>))
    ELSE RaisesFromCategories(exception)

\* the cache file after a failure of the request: the handler of APIError
\* returns the fallback and writes nothing
failed_cache_persisted(file, exception) ==
    IF exception = "APIError" THEN CacheFile("json", categories_failed(exception).data)
    ELSE file
failed_cache(file, exception) == file

InitCategories ==
    /\ status = JNone
    /\ normalized = NotRun
    /\ product = Absent
    /\ edit_status = NotRun
    /\ upstream = Absent
    /\ Idle
    /\ NoQuery
    /\ NoTransport
    /\ NoSchema
    /\ NoEdit
    /\ cache \in CacheStates

\* a call to get_categories, up to its return from the cache or its request
CallGetCategories ==
    /\ qpc \in {"idle", "done"}
    /\ calls < MaxCalls
    /\ calls' = calls + 1
    /\ entry_point' = "get_categories"
    /\ cache_read' = cache
    /\ answer' = NoAnswer
    /\ writes' = <<>>
    /\ LET read == read_cache(cache)
       IN  /\ categories' = read.categories
           /\ IF read.outcome = "fetch"
              THEN requests' = <<CategoriesRequest>> /\ qpc' = "upstream"
              ELSE requests' = <<>> /\ qpc' = "done"
    /\ UNCHANGED <<transport_vars, schema_vars, edit_vars, normalizer_vars, update_vars, bulk_vars, query, args, result, served, cache,
                   threads>>

\* the catalog API answers; the answer is written to the cache file
CategoriesAnswered ==
    /\ qpc = "upstream"
    /\ entry_point = "get_categories"
    /\ \E data \in CategoryAnswers, outcome \in WriteOutcomes :
         /\ answer' = [failure |-> "", body |-> data]
         /\ writes' = Append(writes, [data |-> data, outcome |-> outcome])
         /\ cache' = written_cache(cache, data, outcome)
         /\ categories' = fetched_categories(data, outcome)
    /\ qpc' = "done"
    /\ UNCHANGED <<transport_vars, schema_vars, edit_vars, normalizer_vars, update_vars, bulk_vars, entry_point, query, args,
                   requests, result, served, cache_read, calls,
                   threads>>

\* the request of get_categories fails
CategoriesFailed ==
    /\ qpc = "upstream"
    /\ entry_point = "get_categories"
    /\ \E failure \in TransportFailures :
         /\ answer' = [failure |-> failure, body |-> Absent]
         /\ categories' = categories_failed(raised_by_make_request(failure))
         /\ cache' = failed_cache(cache, raised_by_make_request(failure))
    /\ qpc' = "done"
    /\ UNCHANGED <<transport_vars, schema_vars, edit_vars, normalizer_vars, update_vars,
                   bulk_vars, entry_point, query, args, requests, result, served, writes,
                   cache_read, calls, threads>>

NextCategories ==
    \/ CallGetCategories
    \/ CategoriesAnswered
    \/ CategoriesFailed

SpecCategories == InitCategories /\ [][NextCategories]_vars


(***************************************************************************)
(* Concurrent calls to get_categories.  The cache file is written in two   *)
(* steps: open(CACHE_FILE, 'w') empties it, and the text that json.dump    *)
(* left in the buffer of the file object is written at offset 0 when the   *)
(* with block closes it.  A file that is no JSON holds its length in data. *)
(***************************************************************************)
\* the length of the JSON text of a categories object
TextLength(data) ==
    IF data.t = "dict" /\ HasKey(data, "Data") THEN Len(GetItem(data, "Data").d) + 1 ELSE 1

\* the length of the text in the cache file
FileLength(file) ==
    CASE file.kind = "json" -> TextLength(file.data)
      [] file.kind = "corrupt" /\ file.data.t = "int" -> file.data.n
      [] OTHER -> 0

\* the cache file after open(CACHE_FILE, 'w')
truncated == CacheFile("corrupt", JInt(0))

\* the cache file after the text of data is written at offset 0
overlay(file, data) ==
    IF FileLength(file) > TextLength(data)
    THEN CacheFile("corrupt", JInt(FileLength(file)))
    ELSE CacheFile("json", data)

InitConcurrent ==
    /\ status = JNone
    /\ normalized = NotRun
    /\ product = Absent
    /\ edit_status = NotRun
    /\ upstream = Absent
    /\ Idle
    /\ NoQuery
    /\ NoTransport
    /\ NoSchema
    /\ NoEdit
    /\ cache \in {NoCache} \cup {CacheFile("json", data) : data \in CategorySnapshots}

ThreadUnchanged ==
    UNCHANGED <<transport_vars, schema_vars, edit_vars, normalizer_vars, update_vars, bulk_vars, entry_point, query, args, answer,
                result, served, qpc, writes, cache_read, categories, calls>>

\* a caller reads the cache file and returns what it holds or sends its request
ThreadRead(p) ==
    /\ threads[p].pc = "idle"
    /\ LET read == read_cache(cache)
       IN  /\ threads' = [threads EXCEPT ![p] =
                            [@ EXCEPT !.pc = IF read.outcome = "fetch" THEN "fetch" ELSE "done",
                                      !.found = cache,
                                      !.gave = read.categories]]
           /\ requests' = IF read.outcome = "fetch"
                          THEN Append(requests, CategoriesRequest) ELSE requests
    /\ cache' = cache
    /\ ThreadUnchanged

\* the catalog API answers the request of a caller
ThreadFetched(p) ==
    /\ threads[p].pc = "fetch"
    /\ \E data \in CategorySnapshots :
         threads' = [threads EXCEPT ![p] = [@ EXCEPT !.pc = "open", !.data = data]]
    /\ UNCHANGED <<cache, requests>>
    /\ ThreadUnchanged

\* the request of a caller fails
ThreadFetchFails(p) ==
    /\ threads[p].pc = "fetch"
    /\ \E failure \in TransportFailures :
         threads' = [threads EXCEPT ![p] =
                       [@ EXCEPT !.pc = "done",
                                 !.gave = categories_failed(raised_by_make_request(failure))]]
    /\ UNCHANGED <<cache, requests>>
    /\ ThreadUnchanged

\* a caller opens the cache file for writing
ThreadOpen(p) ==
    /\ threads[p].pc = "open"
    /\ \E opened \in BOOLEAN :
         IF opened
         THEN /\ cache' = truncated
              /\ threads' = [threads EXCEPT ![p] = [@ EXCEPT !.pc = "dump"]]
         ELSE /\ cache' = cache
              /\ threads' = [threads EXCEPT ![p] =
                               [@ EXCEPT !.pc = "done",
                                         !.gave = fetched_categories(threads[p].data,
                                                                     "open fails")]]
    /\ UNCHANGED requests
    /\ ThreadUnchanged

\* the text of a caller is written when its file is closed, or the write
\* fails before any of it is written
ThreadDump(p) ==
    /\ threads[p].pc = "dump"
    /\ \E flushed \in BOOLEAN :
         IF flushed
         THEN /\ cache' = overlay(cache, threads[p].data)
              /\ threads' = [threads EXCEPT ![p] =
                               [@ EXCEPT !.pc = "done", !.wrote = TRUE,
                                         !.gave = fetched_categories(threads[p].data,
                                                                     "written")]]
         ELSE /\ cache' = cache
              /\ threads' = [threads EXCEPT ![p] =
                               [@ EXCEPT !.pc = "done",
                                         !.gave = fetched_categories(threads[p].data,
                                                                     "dump fails")]]
    /\ UNCHANGED requests
    /\ ThreadUnchanged

NextConcurrent ==
    \E p \in Callers :
       \/ ThreadRead(p)
       \/ ThreadFetched(p)
       \/ ThreadFetchFails(p)
       \/ ThreadOpen(p)
       \/ ThreadDump(p)

SpecConcurrent == InitConcurrent /\ [][NextConcurrent]_vars


(***************************************************************************)
(* Configuration, construction of the client and _make_request             *)
(* (SpecTransport).  The configuration module is imported, create_app      *)
(* builds the application and its API client, and the client then sends    *)
(* requests upstream through _make_request.                                *)
(***************************************************************************)
default_timeout == 20
max_request_timeout == 60

\* the REQUEST_TIMEOUT line of api_config.env: none, one that int() refuses, an integer
EnvTimeouts == {0, 1, 15, 20, 60, 61}
EnvFiles ==
    {NoEnv, [kind |-> "text", n |-> 0]} \cup {[kind |-> "int", n |-> n] : n \in EnvTimeouts}

\* Config.REQUEST_TIMEOUT after update_from_env_file: int(value) of the line,
\* the class attribute as it was when there is no line or int() raises
update_from_env_file(current, file) ==
    IF file.kind = "int" THEN file.n ELSE current

\* validate_configuration accepts the timeout (the URL and the token are in order)
validate_configuration(t) == t > 0 /\ t <= max_request_timeout

Methods == {"GET", "PUT"}
Endpoints == {"", "ProductCategories", "Products/1"}
Statuses == {200, 201, 400, 401, 403, 404, 500, 503}
RequestsExceptions == {"ConnectionError", "Timeout", "RequestException"}
Receptions ==
    {[kind |-> k, status |-> 0, json |-> FALSE] : k \in RequestsExceptions}
        \cup {[kind |-> "response", status |-> s, json |-> j] : s \in Statuses, j \in BOOLEAN}

GaveData == [kind |-> "returned", exc |-> "", label |-> ""]
RaisedError(exc, label) == [kind |-> "raised", exc |-> exc, label |-> label]

\* response.raise_for_status() raises HTTPError
raise_for_status(s) == s >= 400 /\ s < 600

\* what _make_request gives for what requests.request gave it: the exception
\* class and the label that opens the message of the exception
make_request_outcome(r) ==
    IF r.kind = "ConnectionError" THEN RaisedError("APIError", "Connection failed")
    ELSE IF r.kind = "Timeout" THEN RaisedError("APIError", "Request timed out")
    ELSE IF r.kind = "RequestException" THEN RaisedError("APIError", "Request failed")
    ELSE IF raise_for_status(r.status) THEN RaisedError("APIError", "HTTP Error")
    ELSE IF ~r.json THEN RaisedError("APIError", "Invalid JSON response")
    ELSE GaveData

InitTransport ==
    /\ status = JNone
    /\ normalized = NotRun
    /\ product = Absent
    /\ edit_status = NotRun
    /\ upstream = Absent
    /\ Idle
    /\ NoQuery
    /\ cache = NoCache
    /\ env_file \in EnvFiles
    /\ REQUEST_TIMEOUT = 15
    /\ timeout = 0
    /\ tpc = "import"
    /\ sent = NoSent
    /\ received = NoReceived
    /\ made = NoOutcome
    /\ NoSchema
    /\ NoEdit

other_vars == <<normalizer_vars, update_vars, bulk_vars, read_vars, edit_vars>>

\* app.config is imported: the environment file is applied and the result validated
ImportConfig ==
    /\ tpc = "import"
    /\ REQUEST_TIMEOUT' = update_from_env_file(REQUEST_TIMEOUT, env_file)
    /\ tpc' = IF validate_configuration(REQUEST_TIMEOUT') THEN "create_app" ELSE "failed"
    /\ UNCHANGED <<other_vars, schema_vars, env_file, timeout, sent, received, made>>

\* create_app builds PaddyApp, which constructs APIClient(api_base_url, bearer_token)
CreateApp ==
    /\ tpc = "create_app"
    /\ timeout' = default_timeout
    /\ tpc' = "ready"
    /\ UNCHANGED <<other_vars, schema_vars, env_file, REQUEST_TIMEOUT, sent, received, made>>

\* _make_request up to requests.request
MakeRequest ==
    /\ tpc = "ready"
    /\ \E method \in Methods, endpoint \in Endpoints :
         IF endpoint = ""
         THEN /\ made' = RaisedError("ValueError", "Endpoint must be provided")
              /\ sent' = NoSent
              /\ tpc' = "ready"
         ELSE /\ made' = NoOutcome
              /\ sent' = [method |-> method, endpoint |-> endpoint, timeout |-> timeout]
              /\ tpc' = "sent"
    /\ received' = NoReceived
    /\ UNCHANGED <<other_vars, schema_vars, env_file, REQUEST_TIMEOUT, timeout>>

\* requests.request returns or raises, and _make_request with it
Receive ==
    /\ tpc = "sent"
    /\ \E r \in Receptions :
         /\ received' = r
         /\ made' = make_request_outcome(r)
    /\ tpc' = "ready"
    /\ UNCHANGED <<other_vars, schema_vars, env_file, REQUEST_TIMEOUT, timeout, sent>>

NextTransport ==
    \/ ImportConfig
    \/ CreateApp
    \/ MakeRequest
    \/ Receive

SpecTransport == InitTransport /\ [][NextTransport]_vars


(***************************************************************************)
(* The field configuration (SpecSchema): FieldConfig is constructed from   *)
(* the field configuration file and is then asked for the fields of        *)
(* categories.                                                             *)
(***************************************************************************)
MaxFields == 2

ConfigFile(kind, data) == [kind |-> kind, data |-> data]

FieldNames == {"D_Grade", "D_Size", "D_Colour"}

\* the description of a field, each of its keys present or not
FieldInfo(display, used, type) ==
    JDict((IF display = Absent THEN <<>> ELSE << <<"display", display>> >>)
            \o (IF used = Absent THEN <<>> ELSE << <<"used", used>> >>)
            \o (IF type = Absent THEN <<>> ELSE << <<"type", type>> >>))

FieldInfos ==
    {FieldInfo(JStr("Grade"), JBool(TRUE), JStr("select")),
     FieldInfo(JStr("Grade"), JBool(FALSE), JStr("select")),
     FieldInfo(Absent, JBool(TRUE), JStr("number")),
     FieldInfo(JStr("Grade"), JBool(TRUE), Absent),
     FieldInfo(JStr("Grade"), Absent, JStr("select"))}

\* the fields objects of up to MaxFields fields, in every order of their names
FieldsObjects ==
    UNION {{JDict([i \in 1..k |-> <<names[i], infos[i]>>]) :
              names \in {f \in [1..k -> FieldNames] : \A i, j \in 1..k : i # j => f[i] # f[j]},
              infos \in [1..k -> FieldInfos]} : k \in 0..MaxFields}

\* the configuration of a category: without fields, or with a fields object
CategoryConfigs ==
    {JDict(<<>>), JDict(<< <<"fields", JNone>> >>)}
        \cup {JDict(<< <<"fields", fields>> >>) : fields \in FieldsObjects}

OtherCategory == JDict(<< <<"fields", JDict(<< <<"D_Size", FieldInfo(JStr("Size"), JBool(TRUE), JStr("text"))>> >>)>> >>)

\* the documents of the field configuration file
SchemaDocuments ==
    {JDict(<< <<"1", c>> >>) : c \in CategoryConfigs}
        \cup {JDict(<< <<"2", OtherCategory>>, <<"1", c>> >>) : c \in CategoryConfigs}
        \cup {JDict(<<>>), JList, JDict(<< <<"1", JNone>> >>), JDict(<< <<"1", JList>> >>)}

FieldConfigFiles ==
    {ConfigFile(k, Absent) : k \in {"absent", "empty", "unreadable", "corrupt"}}
        \cup {ConfigFile("json", document) : document \in SchemaDocuments}

AskedIds == {JInt(1), JInt(2), JInt(3), JStr("1"), JNone}

RECURSIVE DigitsOf(_)
DigitsOf(n) ==
    IF n < 10 THEN CharAt(Digits, n + 1)
    ELSE DigitsOf(n \div 10) \o CharAt(Digits, (n % 10) + 1)

\* str(category_id)
category_id_str(category_id) ==
    IF category_id.t = "str" THEN category_id.s
    ELSE IF category_id.t = "int"
    THEN (IF category_id.n < 0 THEN "-" \o DigitsOf(-category_id.n)
          ELSE DigitsOf(category_id.n))
    ELSE IF category_id.t = "bool" THEN (IF category_id.b THEN "True" ELSE "False")
    ELSE "None"

\* sub in str
HasSubstring(str, sub) ==
    \E i \in 1..(Len(str) - Len(sub) + 1) : SubSeq(str, i, i + Len(sub) - 1) = sub

\* the validation of one category of the loaded document: 'fields' not in
\* category_config, then category_config.keys() for the warning
validate_category(category_config) ==
    IF category_config.t = "dict" THEN ""
    ELSE IF category_config.t = "str"
    THEN (IF HasSubstring(category_config.s, "fields") THEN "" ELSE "AttributeError")
    ELSE IF category_config.t = "list"
    THEN (IF \E i \in 1..Len(category_config.d) : category_config.d[i] = JStr("fields")
          THEN "" ELSE "AttributeError")
    ELSE "TypeError"

\* the try block of _load_field_config: [exc, config]
read_field_config(file) ==
    IF file.kind \in {"absent", "empty"} THEN [exc |-> "", config |-> JDict(<<>>)]
    ELSE IF file.kind = "unreadable" THEN [exc |-> "IOError", config |-> Absent]
    ELSE IF file.kind = "corrupt" THEN [exc |-> "JSONDecodeError", config |-> Absent]
    ELSE IF file.data.t # "dict" THEN [exc |-> "", config |-> JDict(<<>>)]
    ELSE IF \E i \in 1..Len(file.data.d) : validate_category(file.data.d[i][2]) # ""
    THEN [exc |-> (LET i == CHOOSE j \in 1..Len(file.data.d) :
                                /\ validate_category(file.data.d[j][2]) # ""
                                /\ \A k \in 1..(j - 1) :
                                      validate_category(file.data.d[k][2]) = ""
                   IN  validate_category(file.data.d[i][2])),
          config |-> Absent]
    ELSE [exc |-> "", config |-> file.data]

\* _load_field_config: every exception of the try block is caught
load_field_config(file) ==
    LET read == read_field_config(file)
    IN  IF read.exc # "" THEN JDict(<<>>) ELSE read.config

\* field_info.get('used', False)
is_used_any(field_info) == TRUE
is_used(field_info) ==
    Truthy(IF HasKey(field_info, "used") THEN GetItem(field_info, "used") ELSE JBool(FALSE))

\* the entry of the result for one field
active_field(field_name, field_info) ==
    [field |-> JStr(field_name),
     display |-> IF HasKey(field_info, "display") THEN GetItem(field_info, "display")
                 ELSE JStr(field_name),
     type |-> IF HasKey(field_info, "type") THEN GetItem(field_info, "type")
              ELSE JStr("text")]

\* get_category_fields: [exc, fields]
get_category_fields(loaded, category_id) ==
    LET key == category_id_str(category_id)
    IN  IF ~Truthy(loaded) \/ ~HasKey(loaded, key) THEN NoFields
        ELSE IF GetItem(loaded, key).t # "dict" THEN [exc |-> "AttributeError", fields |-> <<>>]
        ELSE LET category_config ==
                     IF HasKey(GetItem(loaded, key), "fields")
                     THEN GetItem(GetItem(loaded, key), "fields")
                     ELSE JDict(<<>>)
             IN  IF ~Truthy(category_config) THEN NoFields
                 ELSE IF category_config.t # "dict"
                         \/ \E i \in 1..Len(category_config.d) :
                                category_config.d[i][2].t # "dict"
                 THEN [exc |-> "AttributeError", fields |-> <<>>]
                 ELSE LET used == SelectSeq(category_config.d,
                                            LAMBDA item : is_used(item[2]))
                      IN  [exc |-> "",
                           fields |-> [i \in 1..Len(used) |->
                                         active_field(used[i][1], used[i][2])]]

InitSchema ==
    /\ status = JNone
    /\ normalized = NotRun
    /\ product = Absent
    /\ edit_status = NotRun
    /\ upstream = Absent
    /\ Idle
    /\ NoQuery
    /\ NoTransport
    /\ cache = NoCache
    /\ field_config_file \in FieldConfigFiles
    /\ config = Absent
    /\ spc = "start"
    /\ asked = Absent
    /\ active_fields = NoFields
    /\ NoEdit

\* FieldConfig()
ConstructFieldConfig ==
    /\ spc = "start"
    /\ config' = load_field_config(field_config_file)
    /\ spc' = "loaded"
    /\ UNCHANGED <<other_vars, transport_vars, field_config_file, asked, active_fields>>

\* a call to get_category_fields
GetCategoryFields ==
    /\ spc \in {"loaded", "done"}
    /\ \E category_id \in AskedIds :
         /\ asked' = category_id
         /\ active_fields' = get_category_fields(config, category_id)
    /\ spc' = "done"
    /\ UNCHANGED <<other_vars, transport_vars, field_config_file, config>>

NextSchema ==
    \/ ConstructFieldConfig
    \/ GetCategoryFields

SpecSchema == InitSchema /\ [][NextSchema]_vars


(***************************************************************************)
(* GET /product/{id}/edit (SpecEdit): _edit_product_route fetches the      *)
(* product, takes the fields of its category from the field configuration  *)
(* and replies with the product and the fields of the edit form.  Of a     *)
(* field of the form the name, the label, the type and the value are       *)
(* modelled.                                                               *)
(***************************************************************************)
\* the object with the given items, without those whose value is Absent
ObjectOf(items) == JDict(SelectSeq(items, LAMBDA item : item[2] # Absent))

EditCategories ==
    {Absent, JNone, JStr("1"), JDict(<<>>), JDict(<< <<"ID", JNone>> >>),
     JDict(<< <<"ID", JInt(0)>> >>), JDict(<< <<"ID", JInt(1)>> >>),
     JDict(<< <<"ID", JInt(3)>>, <<"Description", JStr("Valves")>> >>)}

EditSettings ==
    {Absent, JNone, JDict(<<>>),
     JDict(<< <<"ECommerceStatus", JStr("Enabled")>> >>),
     JDict(<< <<"ECommerceStatus", JInt(1)>>, <<"ExtendedDescription", JStr("long")>> >>),
     JDict(<< <<"ECommerceStatus", JInf(1)>> >>)}

\* what the catalog API answers for Products/{id}
EditBodies ==
    {ObjectOf(<< <<"ID", JInt(1)>>, <<"Category", category>>,
                 <<"ECommerceSettings", settings>>, <<"D_Grade", grade>> >>) :
        category \in EditCategories, settings \in EditSettings,
        grade \in {Absent, JStr("A")}}
    \cup {JList}

\* the field configurations the edit view is served with
EditConfigs ==
    {JDict(<<>>),
     JDict(<< <<"1", JDict(<< <<"fields",
                 JDict(<< <<"D_Size", FieldInfo(JStr("Size"), JBool(TRUE), JStr("Number"))>>,
                          <<"D_Grade", FieldInfo(JStr("Grade"), JBool(TRUE), JStr("Select"))>>,
                          <<"D_WebCategory", FieldInfo(Absent, JBool(FALSE), Absent)>> >>)>> >>)>> >>)}

ErrorView(code, error) ==
    [code |-> code, error |-> error, product |-> Absent, dynamic_fields |-> <<>>]
EditView(served_product, dynamic_fields) ==
    [code |-> 200, error |-> "", product |-> served_product,
     dynamic_fields |-> dynamic_fields]

FormField(name, label, type, value) ==
    [name |-> name, label |-> label, type |-> type, value |-> value]

\* if not category_id
has_category_id_any(category_id) == TRUE
has_category_id(category_id) == Truthy(category_id)

\* the fields of the form that come from the field configuration
category_form_fields(category_fields, body) ==
    LET editable == SelectSeq(category_fields,
                              LAMBDA f : Truthy(f.field) /\ f.field.s \in allowed_fields)
    IN  [i \in 1..Len(editable) |->
           FormField(editable[i].field.s, editable[i].display,
                     JStr(lower(editable[i].type.s)), DictGet(body, editable[i].field.s))]

\* _edit_product_route after the catalog API answered with body; the error
\* of a 500 is named by the exception whose text it is
edit_product_view(body, loaded) ==
    IF body.t # "dict" THEN ErrorView(500, "AttributeError")
    ELSE LET current_category == IF HasKey(body, "Category") THEN GetItem(body, "Category")
                                 ELSE JDict(<<>>)
         IN  IF current_category.t # "dict" THEN ErrorView(500, "AttributeError")
             ELSE IF ~has_category_id(DictGet(current_category, "ID"))
             THEN ErrorView(400, "Invalid product data")
             ELSE LET category_fields ==
                          get_category_fields(loaded, DictGet(current_category, "ID"))
                      ecommerce_settings ==
                          IF HasKey(body, "ECommerceSettings")
                          THEN GetItem(body, "ECommerceSettings") ELSE JDict(<<>>)
                      shown_status == edit_status_value(body)
                  IN  IF category_fields.exc # "" THEN ErrorView(500, category_fields.exc)
                      ELSE IF ecommerce_settings.t # "dict"
                      THEN ErrorView(500, "AttributeError")
                      ELSE IF shown_status = Propagates THEN ErrorView(500, "OverflowError")
                      ELSE IF \E i \in 1..Len(category_fields.fields) :
                                 category_fields.fields[i].type.t # "str"
                      THEN ErrorView(500, "AttributeError")
                      ELSE EditView(body,
                             << FormField("web_status", JStr("Web Status"), JStr("select"),
                                          JStr(IF shown_status = 0 THEN "Available"
                                               ELSE "Not Available")),
                                FormField("extended_description",
                                          JStr("Extended Description"), JStr("textarea"),
                                          IF HasKey(ecommerce_settings, "ExtendedDescription")
                                          THEN GetItem(ecommerce_settings,
                                                       "ExtendedDescription")
                                          ELSE JStr("")) >>
                             \o category_form_fields(category_fields.fields, body))

\* _edit_product_route after its request failed
edit_product_failed(exception) == ErrorView(500, exception)

InitEdit ==
    /\ status = JNone
    /\ normalized = NotRun
    /\ product = Absent
    /\ edit_status = NotRun
    /\ upstream = Absent
    /\ Idle
    /\ NoQuery
    /\ NoTransport
    /\ cache = NoCache
    /\ config \in EditConfigs
    /\ field_config_file = ConfigFile("json", config)
    /\ spc = "loaded"
    /\ asked = Absent
    /\ active_fields = NoFields
    /\ NoEdit

older_vars == <<normalizer_vars, update_vars, bulk_vars, read_vars, transport_vars, schema_vars>>

\* _edit_product_route up to its request for Products/{id}
EditProductRoute ==
    /\ edit_pc = "idle"
    /\ edit_pc' = "upstream"
    /\ UNCHANGED <<older_vars, edit_fetch, edit_view>>

\* the catalog API answers with the product
EditFetched ==
    /\ edit_pc = "upstream"
    /\ \E body \in EditBodies :
         /\ edit_fetch' = [failure |-> "", body |-> body]
         /\ edit_view' = edit_product_view(body, config)
    /\ edit_pc' = "done"
    /\ UNCHANGED older_vars

\* the request for the product fails
EditFetchFailed ==
    /\ edit_pc = "upstream"
    /\ \E failure \in TransportFailures :
         /\ edit_fetch' = [failure |-> failure, body |-> Absent]
         /\ edit_view' = edit_product_failed(raised_by_make_request(failure))
    /\ edit_pc' = "done"
    /\ UNCHANGED older_vars

NextEdit ==
    \/ EditProductRoute
    \/ EditFetched
    \/ EditFetchFailed

SpecEdit == InitEdit /\ [][NextEdit]_vars


(***************************************************************************)
(* Properties of the status normalizer (SpecNormalize).                    *)
(***************************************************************************)
\* the first key of dict_keys_to_check that the object has, "" if it has none
FirstKey(dict) ==
    IF \E i \in 1..Len(dict_keys_to_check) : HasKey(dict, dict_keys_to_check[i])
    THEN dict_keys_to_check[CHOOSE i \in 1..Len(dict_keys_to_check) :
                               /\ HasKey(dict, dict_keys_to_check[i])
                               /\ \A j \in 1..(i - 1) : ~HasKey(dict, dict_keys_to_check[j])]
    ELSE ""

\* the value an object holds under its first recognized key
FirstValue(dict) == GetItem(dict, FirstKey(dict))

\* the status is a boolean, or an object whose first recognized key holds one
HoldsBoolean(raw) ==
    \/ raw.t = "bool"
    \/ raw.t = "dict" /\ FirstKey(raw) # "" /\ FirstValue(raw).t = "bool"

BooleanHeld(raw) == IF raw.t = "bool" THEN raw.b ELSE FirstValue(raw).b

\* C1: a boolean status, given directly or held under the first recognized
\* key of an object, normalizes to Available when true and to NotAvailable
\* when false.
C1_BooleanStatus ==
    (normalized # NotRun /\ HoldsBoolean(status))
        => normalized = (IF BooleanHeld(status) THEN Available ELSE NotAvailable)

\* no rule of the mapping table matches the status
Unmatched(raw) ==
    \/ raw.t \in {"none", "list"}
    \/ raw.t = "dict" /\ FirstKey(raw) = ""

\* C2: the normalizer returns one of the two canonical values for every raw
\* input without raising, and NotAvailable for None and for every shape that
\* no rule matches.
C2_TotalFailSafe ==
    normalized # NotRun
        => /\ normalized \in {Available, NotAvailable}
           /\ Unmatched(status) => normalized = NotAvailable

\* C4: for a boolean, integer, string or object status, the status the edit
\* view shows equals the status the normalizer assigns to the same raw value.
C4_ReadPathEqualsNormalizer ==
    (normalized # NotRun /\ edit_status # NotRun
        /\ status.t \in {"bool", "int", "str", "dict"})
        => edit_status = normalized

AvailableWords == {"available", "enabled", "true", "0", "active"}
NotAvailableWords == {"not available", "disabled", "false", "1", "inactive"}

\* C6: a string status, trimmed and lower-cased, normalizes to Available when
\* it is one of the available words, and to NotAvailable when it is one of
\* the not-available words or any other string.
C6_StringStatus ==
    (normalized # NotRun /\ status.t = "str")
        => normalized = (IF lower(strip(status.s)) \in AvailableWords
                         THEN Available ELSE NotAvailable)

\* the object cut down to its first recognized key
FirstKeyOnly(dict) == JDict(<< <<FirstKey(dict), FirstValue(dict)>> >>)

\* C7: an object status normalizes to the normalization of the value under
\* its first recognized key, whatever its later keys hold, and to NotAvailable
\* when it has no recognized key.
C7_ObjectStatus ==
    (normalized # NotRun /\ status.t = "dict")
        => IF FirstKey(status) = "" THEN normalized = NotAvailable
           ELSE /\ normalized = normalize_ecommerce_status(FirstKeyOnly(status))
                /\ normalize_ecommerce_status(FirstValue(status)) # Propagates
                     => normalized = normalize_ecommerce_status(FirstValue(status))

(***************************************************************************)
(* Properties of the product update (Spec, SpecBulk).                      *)
(***************************************************************************)
\* ECommerceSettings of the last PUT body, Absent when the body has none
PutSettings ==
    IF put.body.t = "dict" /\ HasKey(put.body, "ECommerceSettings")
    THEN GetItem(put.body, "ECommerceSettings") ELSE Absent

\* ECommerceSettings.ECommerceStatus of the last PUT body
PutStatus ==
    IF PutSettings.t = "dict" /\ HasKey(PutSettings, "ECommerceStatus")
    THEN GetItem(PutSettings, "ECommerceStatus") ELSE Absent

\* the route has sent a PUT for a status change
StatusPut == puts > 0 /\ caller = "route" /\ status_value # NoStatus

\* C3: in a PUT issued for a status change, ECommerceSettings.ECommerceStatus
\* is the string "Enabled" for Available and "Disabled" for NotAvailable.
C3_StringWriteProjection ==
    StatusPut => PutStatus = JStr(IF status_value = Available THEN "Enabled" ELSE "Disabled")

\* C5: normalizing the write projection that update_product puts into the
\* PUT body for a canonical status yields that status again.
C5_RoundTrip ==
    (StatusPut /\ status_value \in {Available, NotAvailable})
        => normalize_ecommerce_status(PutStatus) = status_value

C5_Witness ==
    /\ StatusPut
    /\ status_value = Available
    /\ PutStatus.t = "dict"
    /\ put.acked

\* the request changes extended_description and nothing else
OnlyDescription(data) ==
    data.t = "dict" /\ Len(data.d) = 1 /\ HasKey(data, "extended_description")

\* C8: an update of extended_description alone, on a product whose status is
\* "Enabled", results in a PUT whose ECommerceSettings are the ones just
\* fetched with only ExtendedDescription replaced.
C8_MergeSafety ==
    (pc = "done" /\ caller = "route" /\ OnlyDescription(update_data)
        /\ fetched.t = "dict" /\ DictGet(fetched, "ECommerceStatus") = JStr("Enabled"))
        => /\ puts = 1
           /\ PutSettings = SetItem(fetched, "ExtendedDescription",
                                    GetItem(update_data, "extended_description"))

\* the canonical status of the product re-read by the route: NotAvailable,
\* the fail-safe value, where the normalizer raises
RereadStatus ==
    LET current_status == normalize_ecommerce_status(reread)
    IN  IF current_status = Propagates THEN NotAvailable ELSE current_status

\* C9: a status update answered with success has a re-read product that
\* normalizes to the intended status, and an acknowledged write whose re-read
\* status is not the intended one is answered with the error
\* 'Status update verification failed'.
C9_WriteVerification ==
    (pc = "done" /\ caller = "route" /\ status_value # NoStatus)
        => /\ reply.code = 200 => reread.t # "absent" /\ RereadStatus = status_value
           /\ (put.acked /\ reread.t # "absent" /\ RereadStatus # status_value)
                => reply = Reply(500, "Status update verification failed")

\* the keys of an object
Keys(dict) == {dict.d[i][1] : i \in 1..Len(dict.d)}

\* settings is made of the fetched settings: only the status and the
\* extended description may differ
DerivedFrom(settings, got) ==
    /\ got.t = "dict"
    /\ settings.t = "dict"
    /\ Keys(settings) \subseteq Keys(got) \cup {"ECommerceStatus", "ExtendedDescription"}
    /\ \A k \in Keys(got) \ {"ECommerceStatus", "ExtendedDescription"} :
         HasKey(settings, k) /\ GetItem(settings, k) = GetItem(got, k)

\* C10: a PUT that writes ECommerceSettings comes after a GET of the product
\* made by the same update, and its ECommerceSettings are derived from the
\* response to that GET.
C10_ReadBeforeWrite ==
    (puts > 0 /\ PutSettings.t # "absent")
        => put.fetched.t # "absent" /\ DerivedFrom(PutSettings, put.fetched)

\* C11: the body of every PUT sent for a product update has at top level
\* only allow-listed dynamic fields and ECommerceSettings.
C11_PutAllowList ==
    puts > 0 => Keys(put.body) \subseteq allowed_fields \cup {"ECommerceSettings"}

\* C12: a PUT answered with Status "Processed" or "Ok" is not reported as a
\* failed update, and a PUT answered with any other Status, or with none, is.
C12_SuccessStatuses ==
    (pc = "returned" /\ puts > 0 /\ put.status \notin {"not a dict", "APIError"})
        => (put.status \in {"Processed", "Ok"} <=> response # "Failed to update product")

(***************************************************************************)
(* Properties of the products query (SpecQuery).                           *)
(***************************************************************************)
\* the running request has called get_products / search_products_api
CalledGetProducts == entry_point \in {"get_products", "_products_route"}
CalledSearch ==
    /\ entry_point \in {"search_products_api", "_api_search_route",
                        "_all_products_search_route"}
    /\ args # NoArgs

\* the products queries sent so far
ProductsQueries == SelectSeq(requests, LAMBDA r : r.endpoint = "Products")

\* C13: for a requested page size above 30, get_products and
\* search_products_api send fetch = 30 upstream and return a page whose
\* ItemsPerPage is 30.
C13_Clamping ==
    ((CalledGetProducts \/ CalledSearch) /\ args.items_per_page > 30)
        => /\ \A i \in 1..Len(ProductsQueries) : ProductsQueries[i].fetch = 30
           /\ result.kind = "page" => result.page.ItemsPerPage = 30

\* C14: a call of get_products or search_products_api with a page below 1
\* sends no request upstream and returns no page.
C14_PageBelowOne ==
    ((CalledGetProducts \/ CalledSearch) /\ args.page < 1)
        => ProductsQueries = <<>> /\ result.kind # "page"

\* the field named by the sort input of the request: the sort_field given to
\* get_products, or the text before the first "[" of the sort parameter of
\* the products route
RECURSIVE BeforeBracket(_)
BeforeBracket(str) ==
    IF Len(str) = 0 \/ CharAt(str, 1) = "[" THEN ""
    ELSE CharAt(str, 1) \o BeforeBracket(SubSeq(str, 2, Len(str)))

RequestedSortField ==
    IF entry_point = "_products_route"
    THEN (IF query.sort.t = "str" THEN BeforeBracket(query.sort.s) ELSE "")
    ELSE (IF args.sort_field.t = "str" THEN args.sort_field.s ELSE "")

SortAllowList ==
    {"Code", "Description", "ImageCount", "D_WebCategory", "D_Classification",
     "D_ThreadGender", "D_SizeA", "D_SizeB", "D_SizeC", "D_SizeD", "D_Orientation",
     "D_Configuration", "D_Grade", "D_ManufacturerName", "D_Application"}

SortForms == {f \o "[" \o d \o "]" : f \in SortAllowList, d \in {"asc", "dsc"}}

\* get_products was called for a category and is past its sort handling
PastSortHandling == CalledGetProducts /\ qpc # "idle" /\ Truthy(args.category)

\* C15: a products request whose sort field is absent, malformed or outside
\* the allow-list raises no error and queries with sort = Code[asc]; every
\* products query has a sort F[d], F allow-listed, d asc or dsc.
C15_SortDefaulting ==
    /\ (PastSortHandling /\ RequestedSortField \notin SortAllowList)
         => Len(ProductsQueries) = 1 /\ ProductsQueries[1].sort = "Code[asc]"
    /\ \A i \in 1..Len(ProductsQueries) : ProductsQueries[i].sort \in SortForms

\* C16: get_products called with an allow-listed sort field and a direction
\* other than asc and dsc (any other string, none, null) raises no error and
\* queries with sort = Field[asc].
C16_DirectionReset ==
    (PastSortHandling /\ entry_point = "get_products"
        /\ RequestedSortField \in SortAllowList
        /\ args.sort_direction \notin {JStr("asc"), JStr("dsc")})
        => /\ Len(ProductsQueries) = 1
           /\ ProductsQueries[1].sort = RequestedSortField \o "[asc]"

\* the category the request asks for, 0 when it asks for none
RequestedCategory ==
    CASE args.category.t = "int" -> args.category.n
      [] args.category.t = "str" /\ args.category.s # "" /\ AllDigits(args.category.s) ->
           DigitsValue(args.category.s)
      [] OTHER -> 0

\* Category.ID of a product is c
InCategory(item, c) ==
    /\ HasKey(item, "Category")
    /\ GetItem(item, "Category").t = "dict"
    /\ DictGet(GetItem(item, "Category"), "ID") = JInt(c)

\* C17: the page returned by get_products, or by search_products_api for a
\* category, holds only products whose Category.ID is the requested category.
C17_DefensiveRefilter ==
    ((CalledGetProducts \/ CalledSearch) /\ result.kind = "page" /\ RequestedCategory # 0)
        => \A i \in 1..Len(result.page.Data) :
             InCategory(result.page.Data[i], RequestedCategory)

\* C18: get_products called for a category, its request failing (connection
\* error, timeout, HTTP error status, body that is no JSON), raises nothing
\* and returns {TotalCount: 0, CurrentPage: page, ItemsPerPage: size,
\* TotalPages: 0, Data: []}.
C18_FailsClosed ==
    (CalledGetProducts /\ qpc = "done" /\ answer.failure \in TransportFailures)
        => /\ result.kind = "page"
           /\ result.page = [TotalCount |-> 0, CurrentPage |-> args.page,
                             ItemsPerPage |-> args.items_per_page, TotalPages |-> 0,
                             Data |-> <<>>]

C18_Witness ==
    /\ entry_point = "get_products"
    /\ qpc = "done"
    /\ answer.failure = "JSONDecodeError"
    /\ args.page = 2
    /\ result.kind = "page"
    /\ result.page.CurrentPage = 2

\* the search has no category, no code and no description
NoCriteria ==
    /\ entry_point \in {"search_products_api", "_api_search_route",
                        "_all_products_search_route"}
    /\ \A criterion \in {args.category, args.code_query, args.description_query} :
         criterion \in {Absent, JNone, JStr("")}

\* C19: a search without category, code and description is rejected on every
\* entry point and sends no request upstream.
C19_NoCriteriaRejected ==
    NoCriteria => /\ requests = <<>>
                  /\ result.kind # "page"
                  /\ served.code # 200

(***************************************************************************)
(* Properties of the categories cache (SpecCategories).                    *)
(***************************************************************************)
\* C20: a call of get_categories that finds the cache file present and
\* parseable returns what the file holds and sends no request; a call that
\* finds it absent, unreadable or corrupt sends exactly one request and, the
\* request answered, returns the answer and makes one attempt to write it to
\* the file, whether or not the write succeeds.
C20_ReadThrough ==
    (entry_point = "get_categories" /\ qpc = "done")
        => IF cache_read.kind = "json"
           THEN /\ categories = [kind |-> "data", exc |-> "", data |-> cache_read.data]
                /\ requests = <<>>
           ELSE /\ Len(requests) = 1
                /\ answer.failure = ""
                     => /\ categories = [kind |-> "data", exc |-> "", data |-> answer.body]
                        /\ Len(writes) = 1
                        /\ writes[1].data = answer.body

\* the running call found no usable cache file
CacheReadFailed == cache_read.kind # "json"

\* C21: a call of get_categories raises nothing whatever the cache file holds
\* and however the catalog API answers, and returns {TotalCount: 0, Data: []}
\* when both the read of the cache and the request fail.
C21_NeverRaises ==
    (entry_point = "get_categories" /\ qpc = "done")
        => /\ categories.kind = "data"
           /\ (CacheReadFailed /\ answer.failure \in TransportFailures)
                => categories.data = JDict(<< <<"TotalCount", JInt(0)>>,
                                              <<"Data", JListOf(<<>>)>> >>)

(***************************************************************************)
(* Properties of concurrent calls to get_categories (SpecConcurrent).      *)
(***************************************************************************)
\* C22: while calls of get_categories run concurrently, the cache file holds
\* a complete JSON document at every instant, no call reads anything else
\* from it, and once all calls are over it holds the document of one of the
\* calls that wrote it.
C22_AtomicCacheWrite ==
    /\ cache.kind \in {"absent", "json"}
    /\ \A p \in Callers : threads[p].found.kind \in {"absent", "json"}
    /\ ((\A p \in Callers : threads[p].pc = "done") /\ (\E p \in Callers : threads[p].wrote))
         => \E p \in Callers : threads[p].wrote /\ cache = CacheFile("json", threads[p].data)

\* C23: the categories cache has no expiry.  Once a call of get_categories has
\* written the answer it fetched to the cache file, the next call returns
\* that same answer and sends no request to the catalog API (nothing but
\* get_categories touches the file in SpecCategories).
PersistedSnapshot ==
    /\ entry_point = "get_categories"
    /\ qpc = "done"
    /\ Len(writes) = 1
    /\ writes[1].outcome = "written"

C23_NoExpiry ==
    [][(PersistedSnapshot /\ calls' = calls + 1)
          => /\ qpc' = "done"
             /\ requests' = <<>>
             /\ categories' = GaveCategories(writes[1].data)]_vars

(***************************************************************************)
(* Properties of the transport (SpecTransport).                            *)
(***************************************************************************)
\* the kind of an error as a caller of _make_request can test it: the class
\* of the exception and the label the raising branch gives its message
error_kind(o) == <<o.exc, o.label>>

\* the kind the contract gives a response
contract_kind(r) ==
    IF r.kind # "response" THEN "other"
    ELSE IF r.status \in {401, 403} THEN "authentication"
    ELSE IF r.status = 404 THEN "not-found"
    ELSE IF r.status >= 500 THEN "upstream-unavailable"
    ELSE IF r.status >= 200 /\ r.status < 300 /\ ~r.json THEN "decode"
    ELSE "other"

\* C24: _make_request classifies the failures: the error raised for a 401 or
\* a 403, for a 404, for a status of 500 or more, and for a 2xx response with
\* a malformed body is of a kind that the responses of the other three
\* classes never give, and 401 and 403 give the same kind.
C24_DistinctErrorKinds ==
    (tpc = "ready" /\ contract_kind(received) # "other")
        => /\ made.kind = "raised"
           /\ \A r \in Receptions :
                /\ contract_kind(r) = contract_kind(received)
                     => error_kind(make_request_outcome(r)) = error_kind(made)
                /\ contract_kind(r) \notin {"other", contract_kind(received)}
                     => error_kind(make_request_outcome(r)) # error_kind(made)

\* C25: every request sent upstream carries Config.REQUEST_TIMEOUT as its timeout.
C25_ConfiguredTimeout ==
    (tpc = "sent") => sent.timeout = REQUEST_TIMEOUT

(***************************************************************************)
(* Properties of the page arithmetic (SpecQuery).                          *)
(***************************************************************************)
\* q = ceil(n / d)
IsCeiling(q, n, d) == d > 0 /\ q * d >= n /\ (q - 1) * d < n

\* C26: a page that get_products or search_products_api returns after the
\* catalog API answered carries the TotalCount of that answer, and its
\* TotalPages is ceil(TotalCount / ItemsPerPage).
C26_TotalPages ==
    ((CalledGetProducts \/ CalledSearch) /\ qpc = "done" /\ answer.failure = ""
        /\ result.kind = "page")
        => /\ result.page.TotalCount = answer.body.TotalCount
           /\ IsCeiling(result.page.TotalPages, result.page.TotalCount,
                        result.page.ItemsPerPage)

(***************************************************************************)
(* Properties of the field configuration (SpecSchema).                     *)
(***************************************************************************)
\* the configuration file holds a schema: an object whose values are objects
StoreLoaded ==
    /\ field_config_file.kind = "json"
    /\ field_config_file.data.t = "dict"
    /\ \A i \in 1..Len(field_config_file.data.d) : field_config_file.data.d[i][2].t = "dict"

\* the fields the file configures for the category asked, in the order of the file
ConfiguredFields ==
    LET key == category_id_str(asked)
        schema == field_config_file.data
    IN  IF StoreLoaded /\ HasKey(schema, key) /\ HasKey(GetItem(schema, key), "fields")
           /\ GetItem(GetItem(schema, key), "fields").t = "dict"
        THEN GetItem(GetItem(schema, key), "fields").d
        ELSE <<>>

\* those of them whose used flag is true
UsedFields ==
    SelectSeq(ConfiguredFields,
              LAMBDA item : HasKey(item[2], "used") /\ GetItem(item[2], "used") = JBool(TRUE))

\* C27: FieldConfig is constructed whatever the state of the configuration
\* file, with an empty configuration when the file did not load; and
\* get_category_fields never raises and returns exactly the fields of the
\* category whose used flag is true, in the order of the file, each with its
\* name, its display label (the name when none is configured) and its type
\* ("text" when none is configured): nothing when the file did not load, the
\* category is not in it, or none of its fields is used.
C27_ActiveFields ==
    /\ spc # "start" => config.t = "dict"
    /\ (spc # "start" /\ ~StoreLoaded) => config = JDict(<<>>)
    /\ spc = "done"
         => /\ active_fields.exc = ""
            /\ Len(active_fields.fields) = Len(UsedFields)
            /\ \A i \in 1..Len(UsedFields) :
                 LET given == active_fields.fields[i]
                     info == UsedFields[i][2]
                 IN  /\ given.field = JStr(UsedFields[i][1])
                     /\ given.display = (IF HasKey(info, "display")
                                         THEN GetItem(info, "display")
                                         ELSE JStr(UsedFields[i][1]))
                     /\ given.type = (IF HasKey(info, "type") THEN GetItem(info, "type")
                                      ELSE JStr("text"))

\* of two configured fields the first is not used: the second alone is returned
C27_Witness ==
    /\ spc = "done"
    /\ asked = JInt(1)
    /\ Len(ConfiguredFields) = 2
    /\ ConfiguredFields[1][1] = "D_Size"
    /\ HasKey(ConfiguredFields[1][2], "used")
    /\ GetItem(ConfiguredFields[1][2], "used") = JBool(FALSE)
    /\ active_fields = [exc |-> "",
                        fields |-> << [field |-> JStr("D_Grade"), display |-> JStr("D_Grade"),
                                       type |-> JStr("number")] >>]

(***************************************************************************)
(* Properties of the edit view (SpecEdit).                                 *)
(***************************************************************************)
\* the product has no category reference: no Category, a null Category, or
\* a Category without an ID
LacksCategory(body) ==
    /\ body.t = "dict"
    /\ \/ ~HasKey(body, "Category")
       \/ GetItem(body, "Category") = JNone
       \/ /\ GetItem(body, "Category").t = "dict"
          /\ DictGet(GetItem(body, "Category"), "ID") = JNone

\* C28: when the product cannot be fetched, or the product fetched has no
\* category reference, _edit_product_route replies with an error (400 or
\* 500 and an error text) and with no product and no field of the form.
C28_EditNeedsCategory ==
    (edit_pc = "done"
        /\ \/ edit_fetch.failure \in TransportFailures
           \/ edit_fetch.failure = "" /\ LacksCategory(edit_fetch.body))
        => /\ edit_view.code \in {400, 500}
           /\ edit_view.error # ""
           /\ edit_view.product = Absent
           /\ edit_view.dynamic_fields = <<>>

\* a product without Category, its settings in order, is refused with 400
C28_Witness ==
    /\ edit_pc = "done"
    /\ edit_fetch.failure = ""
    /\ edit_fetch.body.t = "dict"
    /\ ~HasKey(edit_fetch.body, "Category")
    /\ HasKey(edit_fetch.body, "ECommerceSettings")
    /\ GetItem(edit_fetch.body, "ECommerceSettings").t = "dict"
    /\ edit_view = ErrorView(400, "Invalid product data")

(***************************************************************************)
(* Properties of the categories fallback (SpecCategories).                 *)
(***************************************************************************)
\* C29: when the request of get_categories fails and the call ends in the
\* fallback, nothing is written: the cache file is as the call found it, so
\* that the next call sends the request again.
C29_FallbackNotPersisted ==
    (entry_point = "get_categories" /\ qpc = "done" /\ answer.failure \in TransportFailures)
        => /\ cache = cache_read
           /\ writes = <<>>
           /\ read_cache(cache).outcome = "fetch"

\* a later call that found no cache file, failed as well and left none
C29_Witness ==
    /\ entry_point = "get_categories"
    /\ qpc = "done"
    /\ calls = 2
    /\ answer.failure = "Timeout"
    /\ cache_read = NoCache
    /\ cache = NoCache
    /\ requests = <<CategoriesRequest>>
    /\ categories = GaveCategories(JDict(<< <<"TotalCount", JInt(0)>>, <<"Data", JListOf(<<>>)>> >>))

(***************************************************************************)
(* Properties of the bulk update accounting (SpecBulk).                    *)
(***************************************************************************)
\* the entries of the request that have an id and updates
Processable == SelectSeq(bulk_products, LAMBDA e : Truthy(e.id) /\ Truthy(e.updates))

\* how many times id occurs in the sequence of ids
Occurrences(ids, id) == Cardinality({i \in 1..Len(ids) : ids[i] = id})

\* C30: when the bulk update has gone through its entries, every entry with
\* an id and updates is recorded once, in successful or in failed (each id
\* occurs in the two lists together as often as entries with updates carry
\* it, and an id that only entries without updates carry occurs in neither),
\* every id in failed has an item in errors, and the status is 200 iff
\* failed is empty, 207 iff both lists have ids, 500 iff only failed has.
C30_BulkAccounting ==
    (caller = "bulk" /\ pc = "done" /\ reply.text = "results")
        => /\ \A id \in {1, 2} :
                Occurrences(results.successful, id) + Occurrences(results.failed, id)
                    = Occurrences([i \in 1..Len(Processable) |-> Processable[i].id.n], id)
           /\ Len(results.successful) + Len(results.failed) = Len(Processable)
           /\ \A i \in 1..Len(results.failed) : HasKey(JDict(results.errors), results.failed[i])
           /\ reply.code = 200 <=> results.failed = <<>>
           /\ reply.code = 207 <=> (results.failed # <<>> /\ results.successful # <<>>)
           /\ reply.code = 500 <=> (results.failed # <<>> /\ results.successful = <<>>)

\* of two entries one is updated and the other fails: 207
C30_Witness ==
    /\ caller = "bulk"
    /\ pc = "done"
    /\ Len(bulk_products) = 2
    /\ Len(results.successful) = 1
    /\ Len(results.failed) = 1
    /\ reply = Reply(207, "results")

====
